---- MODULE Spec2Model ----
(***************************************************************************)
(* Model of the HyperNOs numerical layer: the spatial-derivative engines   *)
(* (autograd and finite differences), the PDE residual evaluators built on *)
(* them, the relative-norm losses, and the validation loops of train.py    *)
(* that aggregate those losses.                                            *)
(*                                                                         *)
(* Tensor entries are real numbers, kept exact: a rational is a pair       *)
(* <<numerator, denominator>> in lowest terms.  Floating-point rounding is *)
(* not part of the model.                                                  *)
(***************************************************************************)
EXTENDS Integers, Sequences, FiniteSets, TLC

VARIABLES
  inp,       \* the field a test has built on its grid
  grid,      \* that grid: its shape and whether it tracks gradients
  call,      \* the engine or evaluator call in progress, with its arguments
  out,       \* the tensors that call returned
  ds,        \* the model under evaluation and its data loaders
  pc,        \* where validate_epoch or test_fun_multiout stands
  ti,        \* index of the next batch of the test loader
  tri,       \* index of the next batch of the train loader
  acc,       \* the running sums and sample counts of the function
  ret,       \* the tuple the function returned
  raised,    \* the exception the function ended with, "none" if none
  training,  \* the mode of the model: TRUE after model.train(), FALSE after model.eval()
  obj,       \* a constructed factory, engine, evaluator or loss object: kind and configuration
  tensors,   \* the tensors the callers of obj hold and pass to it
  frames,    \* the calls of obj in progress: position, batch passed, result
  scratch,   \* the intermediate values of the calls in progress
  seen,      \* the result of the first completed call of obj on each batch
  config,    \* the dictionary of hyperparameters passed to train_fixed_model
  run,       \* the call of train_fixed_model: position, message printed, optimizer and scheduler
  trial,     \* the Ray Tune trial running train_hyperparameter: position, epoch, model and optimizer
  checkpoint, \* the content of checkpoint.pt of the last reported checkpoint, <<>> if none
  cli,       \* a run of the command-line driver: arguments, parsed options, selected loss
  job,       \* the call of train_model_without_ray in detail: position, epoch, batch, stored samples
  net,       \* the model, the optimizer and the scheduler that call trains
  disk       \* what that call wrote: tensorboard records, errors.txt, the saved model

physVars == <<inp, grid, call, out>>
evalVars == <<ds, pc, ti, tri, acc, ret, raised, training>>
objVars == <<obj, tensors, frames, scratch, seen>>
fixedVars == <<config, run>>
tuneVars == <<trial, checkpoint>>
cliVars == <<cli>>
loopVars == <<job, net, disk>>
vars == <<inp, grid, call, out, ds, pc, ti, tri, acc, ret, raised, training,
          obj, tensors, frames, scratch, seen, config, run, trial, checkpoint,
          cli, job, net, disk>>

-----------------------------------------------------------------------------
(* Bounds of the model *)

\* largest exponent n of the polynomial fields c*X^n + d*Y^m
MaxDeg == 3
\* largest coefficient c, d of the polynomial fields
MaxCoef == 2
\* largest wavenumber k handed to the Helmholtz evaluators
MaxK == 2
\* points per axis of the small grid of the polynomial family
FamNx == 6
FamNy == 5

(* Constants of the test-suite *)

\* batch size of every grid of the tests
BatchSize == 1
\* points per axis of the grids of the tests
GridN == 10
\* points along x of the non-square grid of test_darcy_residual_finitediff
DarcyNx == 20

-----------------------------------------------------------------------------
(* Exact rational arithmetic *)

Abs(n) == IF n < 0 THEN 0 - n ELSE n

RECURSIVE GCD(_, _)
GCD(a, b) == IF b = 0 THEN a ELSE GCD(b, a % b)

Rat(n, d) ==
  LET g == GCD(Abs(n), Abs(d))
  IN  IF d < 0 THEN <<(0 - n) \div g, (0 - d) \div g>> ELSE <<n \div g, d \div g>>

RInt(n) == <<n, 1>>

RZero == <<0, 1>>

RAdd(p, q) ==
  LET g == GCD(p[2], q[2])
      l == (p[2] \div g) * q[2]
  IN  Rat(p[1] * (l \div p[2]) + q[1] * (l \div q[2]), l)

RNeg(p) == <<0 - p[1], p[2]>>

RSub(p, q) == RAdd(p, RNeg(q))

RMul(p, q) ==
  LET g1 == GCD(Abs(p[1]), q[2])
      g2 == GCD(Abs(q[1]), p[2])
  IN  Rat((p[1] \div g1) * (q[1] \div g2), (p[2] \div g2) * (q[2] \div g1))

RECURSIVE RPow(_, _)
RPow(p, e) == IF e = 0 THEN RInt(1) ELSE RMul(p, RPow(p, e - 1))

\* |p - q| <= 1 / inv   (torch.allclose with atol = 1/inv)
RClose(p, q, inv) ==
  LET d == RSub(p, q)
  IN  Abs(d[1]) <= d[2] \div inv

-----------------------------------------------------------------------------
(* Fields as expressions of the grid: a field built from the coordinate     *)
(* tensors is a sum of terms  c * X^a * Y^b * fx(X) * fy(Y),  fx and fy in  *)
(* {"1", "sin", "cos"}; this is the graph that reverse-mode                 *)
(* differentiation walks.                                                   *)

Term(c, a, b, fx, fy) == [c |-> c, a |-> a, b |-> b, fx |-> fx, fy |-> fy]

\* u = c * X^n + d * Y^m  (u = x**2, u = X**2 + Y**2, u = X**3 + Y**3, ...)
PolyField(c, n, d, m) ==
  SelectSeq(<<Term(c, n, 0, "1", "1"), Term(d, 0, m, "1", "1")>>,
            LAMBDA t : t.c # 0)

\* u = torch.sin(X) * torch.cos(Y)
SinCosField == <<Term(1, 0, 0, "sin", "cos")>>

\* torch.ones_like(u) * r
ConstField(r) == PolyField(r, 0, 0, 0)

NonZero(f) == SelectSeq(f, LAMBDA t : t.c # 0)

SymAdd(f, g) == f \o g

SymScale(k, f) == NonZero([i \in 1..Len(f) |-> [f[i] EXCEPT !.c = k * @]])

\* product of a term with a polynomial term
TermMul(s, t) ==
  Term(s.c * t.c, s.a + t.a, s.b + t.b,
       IF s.fx = "1" THEN t.fx ELSE s.fx, IF s.fy = "1" THEN t.fy ELSE s.fy)

RECURSIVE SymMul(_, _)
SymMul(f, g) ==
  IF f = <<>> THEN <<>>
  ELSE [i \in 1..Len(g) |-> TermMul(Head(f), g[i])] \o SymMul(Tail(f), g)

\* d/dX of every term: the power rule on X^a plus the chain rule on fx
SymDx(f) ==
  NonZero([i \in 1..Len(f) |->
             [f[i] EXCEPT !.c = @ * f[i].a, !.a = IF @ > 0 THEN @ - 1 ELSE 0]])
  \o
  NonZero([i \in 1..Len(f) |->
             IF f[i].fx = "sin" THEN [f[i] EXCEPT !.fx = "cos"]
             ELSE IF f[i].fx = "cos" THEN [f[i] EXCEPT !.fx = "sin", !.c = 0 - @]
             ELSE [f[i] EXCEPT !.c = 0]])

\* d/dY of every term
SymDy(f) ==
  NonZero([i \in 1..Len(f) |->
             [f[i] EXCEPT !.c = @ * f[i].b, !.b = IF @ > 0 THEN @ - 1 ELSE 0]])
  \o
  NonZero([i \in 1..Len(f) |->
             IF f[i].fy = "sin" THEN [f[i] EXCEPT !.fy = "cos"]
             ELSE IF f[i].fy = "cos" THEN [f[i] EXCEPT !.fy = "sin", !.c = 0 - @]
             ELSE [f[i] EXCEPT !.c = 0]])

-----------------------------------------------------------------------------
(* Grids and sampling *)

\* samples of sin(x_i) * cos(y_j) on the 10 x 10 grid of [0,1]^2, in units of
\* 1e-7, rounded to the nearest unit
SinCosTab ==
  << <<0, 0, 0, 0, 0, 0, 0, 0, 0, 0>>,
     <<1108826, 1101989, 1081560, 1047793, 1001103, 942067, 871412, 790011, 698866, 599101>>,
     <<2203977, 2190387, 2149782, 2082664, 1989860, 1872516, 1732078, 1570278, 1389112, 1190814>>,
     <<3271947, 3251771, 3191490, 3091849, 2954076, 2779871, 2571381, 2331179, 2062227, 1767840>>,
     <<4299564, 4273050, 4193838, 4062903, 3881860, 3652942, 3378972, 3063330, 2709908, 2323064>>,
     <<5274154, 5241631, 5144463, 4983848, 4761768, 4480961, 4144890, 3757701, 3324168, 2849637>>,
     <<6183698, 6145566, 6031641, 5843328, 5582950, 5253717, 4859690, 4405728, 3897431, 3341066>>,
     <<7016979, 6973709, 6844432, 6630743, 6335277, 5961678, 5514554, 4999419, 4422627, 3791290>>,
     <<7763719, 7715844, 7572810, 7336380, 7009471, 6596115, 6101408, 5531453, 4893279, 4194755>>,
     <<8414710, 8362821, 8207793, 7951539, 7597218, 7149201, 6613013, 5995267, 5303582, 4546487>> >>

\* samples of cos(x_i) * cos(y_j) on the 10 x 10 grid of [0,1]^2, in units of
\* 1e-7, rounded to the nearest unit
CosCosTab ==
  << <<10000000, 9938335, 9754101, 9449569, 9028497, 8496076, 7858873, 7124746, 6302751, 5403023>>,
     <<9938335, 9877050, 9693952, 9391299, 8972823, 8443685, 7810411, 7080812, 6263885, 5369705>>,
     <<9754101, 9693952, 9514248, 9217205, 8806487, 8287158, 7665624, 6949549, 6147766, 5270163>>,
     <<9449569, 9391299, 9217205, 8929436, 8531541, 8028426, 7426296, 6732578, 5955828, 5105624>>,
     <<9028497, 8972823, 8806487, 8531541, 8151375, 7670679, 7095381, 6432575, 5690436, 4878118>>,
     <<8496076, 8443685, 8287158, 8028426, 7670679, 7218330, 6676958, 6053238, 5354864, 4590449>>,
     <<7858873, 7810411, 7665624, 7426296, 7095381, 6676958, 6176188, 5599247, 4953251, 4246167>>,
     <<7124746, 7080812, 6949549, 6732578, 6432575, 6053238, 5599247, 5076201, 4490550, 3849517>>,
     <<6302751, 6263885, 6147766, 5955828, 5690436, 5354864, 4953251, 4490550, 3972466, 3405391>>,
     <<5403023, 5369705, 5270163, 5105624, 4878118, 4590449, 4246167, 3849517, 3405391, 2919266>> >>

\* samples of sin(x_i) * sin(y_j) on the 10 x 10 grid of [0,1]^2, in units of
\* 1e-7, rounded to the nearest unit
SinSinTab ==
  << <<0, 0, 0, 0, 0, 0, 0, 0, 0, 0>>,
     <<0, 122950, 244383, 362802, 476747, 584812, 685665, 778061, 860862, 933045>>,
     <<0, 244383, 485752, 721130, 947614, 1162412, 1362873, 1546526, 1711106, 1854583>>,
     <<0, 362802, 721130, 1070564, 1406794, 1725675, 2023273, 2295918, 2540248, 2753248>>,
     <<0, 476747, 947614, 1406794, 1848625, 2267656, 2658720, 3016995, 3338060, 3617958>>,
     <<0, 584812, 1162412, 1725675, 2267656, 2781670, 3261377, 3700863, 4094705, 4438047>>,
     <<0, 685665, 1362873, 2023273, 2658720, 3261377, 3823812, 4339088, 4800850, 5203402>>,
     <<0, 778061, 1546526, 2295918, 3016995, 3700863, 4339088, 4923799, 5447785, 5904584>>,
     <<0, 860862, 1711106, 2540248, 3338060, 4094705, 4800850, 5447785, 6027534, 6532944>>,
     <<0, 933045, 1854583, 2753248, 3617958, 4438047, 5203402, 5904584, 6532944, 7080734>> >>

\* samples of cos(x_i) * sin(y_j) on the 10 x 10 grid of [0,1]^2, in units of
\* 1e-7, rounded to the nearest unit
CosSinTab ==
  << <<0, 1108826, 2203977, 3271947, 4299564, 5274154, 6183698, 7016979, 7763719, 8414710>>,
     <<0, 1101989, 2190387, 3251771, 4273050, 5241631, 6145566, 6973709, 7715844, 8362821>>,
     <<0, 1081560, 2149782, 3191490, 4193838, 5144463, 6031641, 6844432, 7572810, 8207793>>,
     <<0, 1047793, 2082664, 3091849, 4062903, 4983848, 5843328, 6630743, 7336380, 7951539>>,
     <<0, 1001103, 1989860, 2954076, 3881860, 4761768, 5582950, 6335277, 7009471, 7597218>>,
     <<0, 942067, 1872516, 2779871, 3652942, 4480961, 5253717, 5961678, 6596115, 7149201>>,
     <<0, 871412, 1732078, 2571381, 3378972, 4144890, 4859690, 5514554, 6101408, 6613013>>,
     <<0, 790011, 1570278, 2331179, 3063330, 3757701, 4405728, 4999419, 5531453, 5995267>>,
     <<0, 698866, 1389112, 2062227, 2709908, 3324168, 3897431, 4422627, 4893279, 5303582>>,
     <<0, 599101, 1190814, 1767840, 2323064, 2849637, 3341066, 3791290, 4194755, 4546487>> >>

\* coordinate i of an axis of n points: n equispaced points of [0, 1]
Coord(i, n) == Rat(i, n - 1)

\* get_grid_1d([batch, n]) and get_grid_2d([batch, nx, ny]); the autograd
\* factory builds the coordinate tensors with gradient tracking
get_grid(shape, tracking) == [shape |-> shape, requires_grad |-> tracking]

Idx(n) == 0 .. n - 1

\* A tensor is a stored array.  TLC evaluates a function expression afresh at
\* every application until the function has been compared, so an intermediate
\* tensor is compared with itself once to store it; the value is unchanged.
Tensor(f) == IF f = f THEN f ELSE f

TrigVal(fx, fy, i, j) ==
  IF fx = "1" /\ fy = "1" THEN RInt(1)
  ELSE IF fx = "sin" /\ fy = "cos" THEN Rat(SinCosTab[i + 1][j + 1], 10000000)
  ELSE IF fx = "cos" /\ fy = "cos" THEN Rat(CosCosTab[i + 1][j + 1], 10000000)
  ELSE IF fx = "sin" /\ fy = "sin" THEN Rat(SinSinTab[i + 1][j + 1], 10000000)
  ELSE Rat(CosSinTab[i + 1][j + 1], 10000000)

EvalTerm(t, i, j, nx, ny) ==
  RMul(RMul(RInt(t.c), TrigVal(t.fx, t.fy, i, j)),
       RMul(RPow(Coord(i, nx), t.a), IF t.b = 0 THEN RInt(1) ELSE RPow(Coord(j, ny), t.b)))

RECURSIVE EvalSym(_, _, _, _, _)
EvalSym(f, i, j, nx, ny) ==
  IF f = <<>> THEN RZero
  ELSE RAdd(EvalTerm(Head(f), i, j, nx, ny), EvalSym(Tail(f), i, j, nx, ny))

\* the tensor of an expression on a grid: shape (batch, n) or (batch, nx, ny)
Sample1d(f, shape) ==
  [b \in Idx(shape[1]) |-> [i \in Idx(shape[2]) |-> EvalSym(f, i, 0, shape[2], 2)]]

Sample2d(f, shape) ==
  [b \in Idx(shape[1]) |->
     [i \in Idx(shape[2]) |->
        [j \in Idx(shape[3]) |-> EvalSym(f, i, j, shape[2], shape[3])]]]

Sample(f, shape) ==
  Tensor(IF Len(shape) = 2 THEN Sample1d(f, shape) ELSE Sample2d(f, shape))

-----------------------------------------------------------------------------
(* Pointwise tensor operations on (batch, nx, ny) fields *)

Size(f) == Cardinality(DOMAIN f)

FAdd(u, v) ==
  [b \in DOMAIN u |-> [i \in DOMAIN u[b] |-> [j \in DOMAIN u[b][i] |->
     RAdd(u[b][i][j], v[b][i][j])]]]

FSub(u, v) ==
  [b \in DOMAIN u |-> [i \in DOMAIN u[b] |-> [j \in DOMAIN u[b][i] |->
     RSub(u[b][i][j], v[b][i][j])]]]

FMul(u, v) ==
  [b \in DOMAIN u |-> [i \in DOMAIN u[b] |-> [j \in DOMAIN u[b][i] |->
     RMul(u[b][i][j], v[b][i][j])]]]

FScale(k, u) ==
  [b \in DOMAIN u |-> [i \in DOMAIN u[b] |-> [j \in DOMAIN u[b][i] |->
     RMul(RInt(k), u[b][i][j])]]]

-----------------------------------------------------------------------------
(* SpatialDerivativesAutograd: derivatives of the expression u with respect *)
(* to the coordinate tensors, by reverse-mode differentiation with          *)
(* create_graph, so that a derivative can be differentiated again.          *)

Autograd_first_order_1d(u) == <<SymDx(u)>>

Autograd_second_order_1d(u) == <<SymDx(u), SymDx(SymDx(u))>>

Autograd_first_order_2d(u) == <<SymDx(u), SymDy(u)>>

\* a second derivative taken of the wrong first derivative
Autograd_second_order_2d_mixed(u) ==
  <<SymDx(u), SymDy(u), SymDx(SymDx(u)), SymDy(SymDx(u))>>

Autograd_second_order_2d(u) ==
  <<SymDx(u), SymDy(u), SymDx(SymDx(u)), SymDy(SymDy(u))>>

\* PoissonResidualAutograd()(u, X, Y, rhs) = Laplacian(u) - rhs
PoissonResidualAutograd(u, rhs) ==
  LET d == Autograd_second_order_2d(u)
  IN  SymAdd(SymAdd(d[3], d[4]), SymScale(-1, rhs))

\* DarcyResidualAutograd(rhs)(u, X, Y, a) = div(a * grad(u)) + rhs, the flux
\* components a * u_x and a * u_y being differentiated again
DarcyResidualAutograd(rhs, u, a) ==
  LET d  == Autograd_first_order_2d(u)
      fx == SymMul(a, d[1])
      fy == SymMul(a, d[2])
  IN  SymAdd(SymAdd(Autograd_first_order_2d(fx)[1], Autograd_first_order_2d(fy)[2]), rhs)

\* the wavenumber not squared
HelmholtzResidualAutograd_k(u, k) ==
  LET d == <<SymDx(SymDx(u)), SymDy(SymDy(u))>>
  IN  SymAdd(SymAdd(d[1], d[2]), SymScale(k, u))

\* HelmholtzResidualAutograd()(u, X, Y, k) = Laplacian(u) + k^2 * u
HelmholtzResidualAutograd(u, k) ==
  LET d == Autograd_second_order_2d(u)
  IN  SymAdd(SymAdd(d[3], d[4]), SymScale(k * k, u))

-----------------------------------------------------------------------------
(* SpatialDerivativesFiniteDiff: central differences on the samples alone.  *)
(* The spacing of an axis of n samples is h = 1 / (n - 1).  The stencil is  *)
(* written at the interior points only; a boundary cell keeps the content   *)
(* `fill` the result tensor was created with.                               *)

Interior1(i, n) == 1 <= i /\ i <= n - 2

\* the stencil with unit grid spacing, h = 1
Central1_unit(lo, hi, n) == RMul(RSub(hi, lo), Rat(1, 2))

\* (u[i+1] - u[i-1]) / (2h)
Central1(lo, hi, n) == RMul(RSub(hi, lo), Rat(n - 1, 2))

\* (u[i+1] - 2 u[i] + u[i-1]) / h^2
Central2(lo, mid, hi, n) ==
  RMul(RAdd(RSub(hi, RMul(RInt(2), mid)), lo), RInt((n - 1) * (n - 1)))

FiniteDiff_first_order_1d(u, fill) ==
  << [b \in DOMAIN u |->
        LET n == Size(u[b])
        IN  [i \in DOMAIN u[b] |->
               IF Interior1(i, n) THEN Central1(u[b][i - 1], u[b][i + 1], n) ELSE fill]] >>

FiniteDiff_second_order_1d(u, fill) ==
  << [b \in DOMAIN u |->
        LET n == Size(u[b])
        IN  [i \in DOMAIN u[b] |->
               IF Interior1(i, n)
               THEN Central2(u[b][i - 1], u[b][i], u[b][i + 1], n) ELSE fill]] >>

\* the stencil written on the boundary cells too, from the nearest samples
FiniteDiff_first_order_2d_edges(u, fill) ==
  << [b \in DOMAIN u |->
        LET nx == Size(u[b])
        IN  [i \in DOMAIN u[b] |-> [j \in DOMAIN u[b][i] |->
               Central1(u[b][IF i = 0 THEN 0 ELSE i - 1][j],
                        u[b][IF i = nx - 1 THEN i ELSE i + 1][j], nx)]]],
     [b \in DOMAIN u |->
        LET ny == Size(u[b][0])
        IN  [i \in DOMAIN u[b] |-> [j \in DOMAIN u[b][i] |->
               Central1(u[b][i][IF j = 0 THEN 0 ELSE j - 1],
                        u[b][i][IF j = ny - 1 THEN j ELSE j + 1], ny)]]] >>

FiniteDiff_first_order_2d(u, fill) ==
  << [b \in DOMAIN u |->
        LET nx == Size(u[b])
            ny == Size(u[b][0])
        IN  [i \in DOMAIN u[b] |-> [j \in DOMAIN u[b][i] |->
               IF Interior1(i, nx) /\ Interior1(j, ny)
               THEN Central1(u[b][i - 1][j], u[b][i + 1][j], nx) ELSE fill]]],
     [b \in DOMAIN u |->
        LET nx == Size(u[b])
            ny == Size(u[b][0])
        IN  [i \in DOMAIN u[b] |-> [j \in DOMAIN u[b][i] |->
               IF Interior1(i, nx) /\ Interior1(j, ny)
               THEN Central1(u[b][i][j - 1], u[b][i][j + 1], ny) ELSE fill]]] >>

FiniteDiff_second_order_2d(u, fill) ==
  << [b \in DOMAIN u |->
        LET nx == Size(u[b])
            ny == Size(u[b][0])
        IN  [i \in DOMAIN u[b] |-> [j \in DOMAIN u[b][i] |->
               IF Interior1(i, nx) /\ Interior1(j, ny)
               THEN Central2(u[b][i - 1][j], u[b][i][j], u[b][i + 1][j], nx) ELSE fill]]],
     [b \in DOMAIN u |->
        LET nx == Size(u[b])
            ny == Size(u[b][0])
        IN  [i \in DOMAIN u[b] |-> [j \in DOMAIN u[b][i] |->
               IF Interior1(i, nx) /\ Interior1(j, ny)
               THEN Central2(u[b][i][j - 1], u[b][i][j], u[b][i][j + 1], ny) ELSE fill]]] >>

\* the source term added instead of subtracted
PoissonResidualFiniteDiff_plus(u, rhs, fill) ==
  LET d == Tensor(FiniteDiff_second_order_2d(u, fill))
  IN  FAdd(FAdd(d[1], d[2]), rhs)

\* PoissonResidualFiniteDiff()(u, rhs) = Laplacian(u) - rhs
PoissonResidualFiniteDiff(u, rhs, fill) ==
  LET d == Tensor(FiniteDiff_second_order_2d(u, fill))
  IN  FSub(FAdd(d[1], d[2]), rhs)

\* a * Laplacian(u) + rhs: the flux components not differentiated again
DarcyResidualFiniteDiff_lap(rhs, u, a, fill) ==
  LET d == Tensor(FiniteDiff_second_order_2d(u, fill))
  IN  FAdd(FMul(a, FAdd(d[1], d[2])), rhs)

\* DarcyResidualFiniteDiff(rhs)(u, a) = div(a * grad(u)) + rhs
DarcyResidualFiniteDiff(rhs, u, a, fill) ==
  LET d  == Tensor(FiniteDiff_first_order_2d(u, fill))
      fx == Tensor(FMul(a, d[1]))
      fy == Tensor(FMul(a, d[2]))
  IN  FAdd(FAdd(FiniteDiff_first_order_2d(fx, fill)[1],
                FiniteDiff_first_order_2d(fy, fill)[2]), rhs)

\* HelmholtzResidualFiniteDiff()(u, k) = Laplacian(u) + k^2 * u
HelmholtzResidualFiniteDiff(u, k, fill) ==
  LET d == Tensor(FiniteDiff_second_order_2d(u, fill))
  IN  FAdd(FAdd(d[1], d[2]), FScale(k * k, u))

-----------------------------------------------------------------------------
(* The callers: a grid is built, a field is evaluated on it, and one of the *)
(* engines or evaluators is called on the field (the test functions).       *)

Shape1d == <<BatchSize, GridN>>

\* the grids of the 2D tests: 10 x 10, and 20 x 10 in test_darcy_residual_finitediff
TestShapes2d == {<<BatchSize, GridN, GridN>>, <<BatchSize, DarcyNx, GridN>>}

\* a small non-square grid for the whole family of polynomial fields
FamShape2d == <<BatchSize, FamNx, FamNy>>

Family(kind, c, n, m) == [kind |-> kind, c |-> c, n |-> n, m |-> m]

\* the expression of a family member: c * x^n in 1D, c * X^n + Y^m in 2D
FieldOf(fam, dim) ==
  IF fam.kind = "trig" THEN SinCosField
  ELSE IF dim = 1 THEN PolyField(fam.c, fam.n, 0, 0)
  ELSE PolyField(fam.c, fam.n, 1, fam.m)

Input(dim, shape, fam) ==
  [dim |-> dim, shape |-> shape, fam |-> fam,
   sym |-> FieldOf(fam, dim), u |-> Sample(FieldOf(fam, dim), shape)]

\* u = x**n on [1, 10]; u = X**2 + Y**2, u = X**3 + Y**3 and u = sin(X) cos(Y)
\* on the grids of the tests; u = c * X**n + Y**m on the small grid
Inputs ==
  {Input(1, Shape1d, Family("poly", c, n, 0)) : c \in 1..MaxCoef, n \in 0..MaxDeg}
  \cup
  {Input(2, sh, Family("poly", 1, n, n)) : sh \in TestShapes2d, n \in 2..3}
  \cup
  {Input(2, <<BatchSize, GridN, GridN>>, Family("trig", 1, 0, 0))}
  \cup
  {Input(2, FamShape2d, Family("poly", cn[1], cn[2], m)) :
     cn \in (1..MaxCoef) \X (0..MaxDeg), m \in 0..MaxDeg}

\* source terms: rhs = torch.ones_like(u) * r
RhsVals == {1, 4}

\* Darcy coefficient fields: a = torch.ones_like(u), and a = 1 + X
CoefFields == {ConstField(1), PolyField(1, 0, 0, 0) \o PolyField(1, 1, 0, 0)}

\* content of a freshly created result tensor
FillVals == {RZero, RInt(7)}

NoCall == [op |-> "none", eng |-> "none", rhs |-> 0, a |-> <<>>, k |-> 0, fill |-> RZero]

Call(op, eng, rhs, a, k, fill) ==
  [op |-> op, eng |-> eng, rhs |-> rhs, a |-> a, k |-> k, fill |-> fill]

SampleAll(fs, shape) == [n \in 1..Len(fs) |-> Sample(fs[n], shape)]

PhysInit ==
  /\ inp \in Inputs
  /\ grid \in {get_grid(inp.shape, tracking) : tracking \in BOOLEAN}
  /\ call = NoCall
  /\ out = <<>>
  /\ ds = <<>> /\ pc = "idle" /\ ti = 1 /\ tri = 1
  /\ acc = <<>> /\ ret = <<>> /\ raised = "none" /\ training = TRUE
  /\ obj = <<>> /\ tensors = <<>> /\ frames = <<>> /\ scratch = <<>> /\ seen = <<>>
  /\ config = <<>> /\ run = <<>> /\ trial = <<>> /\ checkpoint = <<>>
  /\ cli = <<>> /\ job = <<>> /\ net = <<>> /\ disk = <<>>

Idle == call.op = "none"

first_order_1d_autograd ==
  /\ Idle /\ grid.requires_grad /\ inp.dim = 1
  /\ call' = Call("first_order_1d", "autograd", 0, <<>>, 0, RZero)
  /\ out' = SampleAll(Autograd_first_order_1d(inp.sym), inp.shape)
  /\ UNCHANGED <<inp, grid, objVars, fixedVars, tuneVars, cliVars, loopVars, evalVars>>

second_order_1d_autograd ==
  /\ Idle /\ grid.requires_grad /\ inp.dim = 1
  /\ call' = Call("second_order_1d", "autograd", 0, <<>>, 0, RZero)
  /\ out' = SampleAll(Autograd_second_order_1d(inp.sym), inp.shape)
  /\ UNCHANGED <<inp, grid, objVars, fixedVars, tuneVars, cliVars, loopVars, evalVars>>

first_order_2d_autograd ==
  /\ Idle /\ grid.requires_grad /\ inp.dim = 2
  /\ call' = Call("first_order_2d", "autograd", 0, <<>>, 0, RZero)
  /\ out' = SampleAll(Autograd_first_order_2d(inp.sym), inp.shape)
  /\ UNCHANGED <<inp, grid, objVars, fixedVars, tuneVars, cliVars, loopVars, evalVars>>

second_order_2d_autograd ==
  /\ Idle /\ grid.requires_grad /\ inp.dim = 2
  /\ call' = Call("second_order_2d", "autograd", 0, <<>>, 0, RZero)
  /\ out' = SampleAll(Autograd_second_order_2d(inp.sym), inp.shape)
  /\ UNCHANGED <<inp, grid, objVars, fixedVars, tuneVars, cliVars, loopVars, evalVars>>

poisson_residual_autograd ==
  /\ Idle /\ grid.requires_grad /\ inp.dim = 2
  /\ \E r \in RhsVals :
       /\ call' = Call("poisson", "autograd", r, <<>>, 0, RZero)
       /\ out' = <<Sample(PoissonResidualAutograd(inp.sym, ConstField(r)), inp.shape)>>
  /\ UNCHANGED <<inp, grid, objVars, fixedVars, tuneVars, cliVars, loopVars, evalVars>>

darcy_residual_autograd ==
  /\ Idle /\ grid.requires_grad /\ inp.dim = 2 /\ inp.fam.kind = "poly"
  /\ \E r \in RhsVals, a \in CoefFields :
       /\ call' = Call("darcy", "autograd", r, a, 0, RZero)
       /\ out' = <<Sample(DarcyResidualAutograd(ConstField(r), inp.sym, a), inp.shape)>>
  /\ UNCHANGED <<inp, grid, objVars, fixedVars, tuneVars, cliVars, loopVars, evalVars>>

helmholtz_residual_autograd ==
  /\ Idle /\ grid.requires_grad /\ inp.dim = 2
  /\ \E k \in 1..MaxK :
       /\ call' = Call("helmholtz", "autograd", 0, <<>>, k, RZero)
       /\ out' = <<Sample(HelmholtzResidualAutograd(inp.sym, k), inp.shape)>>
  /\ UNCHANGED <<inp, grid, objVars, fixedVars, tuneVars, cliVars, loopVars, evalVars>>

first_order_1d_finitediff ==
  /\ Idle /\ ~grid.requires_grad /\ inp.dim = 1
  /\ \E fill \in FillVals :
       /\ call' = Call("first_order_1d", "finitediff", 0, <<>>, 0, fill)
       /\ out' = FiniteDiff_first_order_1d(inp.u, fill)
  /\ UNCHANGED <<inp, grid, objVars, fixedVars, tuneVars, cliVars, loopVars, evalVars>>

second_order_1d_finitediff ==
  /\ Idle /\ ~grid.requires_grad /\ inp.dim = 1
  /\ \E fill \in FillVals :
       /\ call' = Call("second_order_1d", "finitediff", 0, <<>>, 0, fill)
       /\ out' = FiniteDiff_second_order_1d(inp.u, fill)
  /\ UNCHANGED <<inp, grid, objVars, fixedVars, tuneVars, cliVars, loopVars, evalVars>>

first_order_2d_finitediff ==
  /\ Idle /\ ~grid.requires_grad /\ inp.dim = 2
  /\ \E fill \in FillVals :
       /\ call' = Call("first_order_2d", "finitediff", 0, <<>>, 0, fill)
       /\ out' = FiniteDiff_first_order_2d(inp.u, fill)
  /\ UNCHANGED <<inp, grid, objVars, fixedVars, tuneVars, cliVars, loopVars, evalVars>>

second_order_2d_finitediff ==
  /\ Idle /\ ~grid.requires_grad /\ inp.dim = 2
  /\ \E fill \in FillVals :
       /\ call' = Call("second_order_2d", "finitediff", 0, <<>>, 0, fill)
       /\ out' = FiniteDiff_second_order_2d(inp.u, fill)
  /\ UNCHANGED <<inp, grid, objVars, fixedVars, tuneVars, cliVars, loopVars, evalVars>>

poisson_residual_finitediff ==
  /\ Idle /\ ~grid.requires_grad /\ inp.dim = 2
  /\ \E r \in RhsVals, fill \in FillVals :
       /\ call' = Call("poisson", "finitediff", r, <<>>, 0, fill)
       /\ out' = <<PoissonResidualFiniteDiff(inp.u, Sample(ConstField(r), inp.shape), fill)>>
  /\ UNCHANGED <<inp, grid, objVars, fixedVars, tuneVars, cliVars, loopVars, evalVars>>

darcy_residual_finitediff ==
  /\ Idle /\ ~grid.requires_grad /\ inp.dim = 2 /\ inp.fam.kind = "poly"
  /\ \E r \in RhsVals, a \in CoefFields, fill \in FillVals :
       /\ call' = Call("darcy", "finitediff", r, a, 0, fill)
       /\ out' = <<DarcyResidualFiniteDiff(Sample(ConstField(r), inp.shape), inp.u,
                                           Sample(a, inp.shape), fill)>>
  /\ UNCHANGED <<inp, grid, objVars, fixedVars, tuneVars, cliVars, loopVars, evalVars>>

helmholtz_residual_finitediff ==
  /\ Idle /\ ~grid.requires_grad /\ inp.dim = 2
  /\ \E k \in 1..MaxK, fill \in FillVals :
       /\ call' = Call("helmholtz", "finitediff", 0, <<>>, k, fill)
       /\ out' = <<HelmholtzResidualFiniteDiff(inp.u, k, fill)>>
  /\ UNCHANGED <<inp, grid, objVars, fixedVars, tuneVars, cliVars, loopVars, evalVars>>

\* the caller has used the result; the engines keep nothing of the call
Return ==
  /\ ~Idle
  /\ call' = NoCall
  /\ out' = <<>>
  /\ raised' = "none"
  /\ UNCHANGED <<inp, grid, objVars, fixedVars, tuneVars, cliVars, loopVars, ds, pc, ti, tri, acc, ret, training>>

PhysNext ==
  \/ first_order_1d_autograd
  \/ second_order_1d_autograd
  \/ first_order_2d_autograd
  \/ second_order_2d_autograd
  \/ poisson_residual_autograd
  \/ darcy_residual_autograd
  \/ helmholtz_residual_autograd
  \/ first_order_1d_finitediff
  \/ second_order_1d_finitediff
  \/ first_order_2d_finitediff
  \/ second_order_2d_finitediff
  \/ poisson_residual_finitediff
  \/ darcy_residual_finitediff
  \/ helmholtz_residual_finitediff
  \/ Return

SpecPhys == PhysInit /\ [][PhysNext]_vars

-----------------------------------------------------------------------------
(* Calls whose derivative strategy is not the one the grid was built for.   *)
(* The autograd engine differentiates u with respect to the grid tensors    *)
(* it is given: on tensors without gradient tracking it fails, raising or   *)
(* producing None gradients.  The finite-difference engine is called with   *)
(* the samples of u alone and computes its stencils on them.                *)

AutogradOps(dim) ==
  IF dim = 1 THEN {"first_order_1d", "second_order_1d"}
  ELSE {"first_order_2d", "second_order_2d"}

autograd_on_untracked_grid ==
  /\ Idle /\ ~grid.requires_grad
  /\ \E op \in AutogradOps(inp.dim) :
       call' = Call(op, "autograd", 0, <<>>, 0, RZero)
  /\ \/ out' = <<>> /\ raised' = "RuntimeError"
     \/ out' = <<"None">> /\ raised' = "none"
  /\ UNCHANGED <<inp, grid, objVars, fixedVars, tuneVars, cliVars, loopVars, ds, pc, ti, tri, acc, ret, training>>

finitediff_on_tracking_grid ==
  /\ Idle /\ grid.requires_grad
  /\ \E fill \in FillVals :
       IF inp.dim = 1
         THEN /\ call' = Call("first_order_1d", "finitediff", 0, <<>>, 0, fill)
              /\ out' = FiniteDiff_first_order_1d(inp.u, fill)
         ELSE /\ call' = Call("first_order_2d", "finitediff", 0, <<>>, 0, fill)
              /\ out' = FiniteDiff_first_order_2d(inp.u, fill)
  /\ UNCHANGED <<inp, grid, objVars, fixedVars, tuneVars, cliVars, loopVars, evalVars>>

StrategyNext ==
  \/ PhysNext
  \/ autograd_on_untracked_grid
  \/ finitediff_on_tracking_grid

SpecStrategy == PhysInit /\ [][StrategyNext]_vars

Mismatch ==
  \/ call.eng = "autograd" /\ ~grid.requires_grad
  \/ call.eng = "finitediff" /\ grid.requires_grad

\* C11: a derivative requested with a strategy that does not match the grid
\* (autograd on a grid without gradient tracking, finite differences on a
\* gradient-tracking grid) is rejected with StrategyMismatch when the call is
\* made, and no derivative field is returned.
C11_AsStated ==
  Mismatch => raised = "StrategyMismatch" /\ out = <<>>

-----------------------------------------------------------------------------
(* Closed forms, for the statements about the derivative engines and the    *)
(* residual evaluators.                                                     *)

\* d/dx (c x^n) and d2/dx2 (c x^n) at the point x
ExactD1(c, n, x) == IF n < 1 THEN RZero ELSE RMul(RInt(c * n), RPow(x, n - 1))

ExactD2(c, n, x) == IF n < 2 THEN RZero ELSE RMul(RInt(c * n * (n - 1)), RPow(x, n - 2))

IsPoly == inp.fam.kind = "poly"

Batches == Idx(inp.shape[1])

Nx == inp.shape[2]

Ny == inp.shape[3]

XAt(i) == Coord(i, Nx)

YAt(j) == Coord(j, Ny)

\* the cells of a 2D field at least k cells from each edge
Cells(k) ==
  {bij \in Batches \X (k .. Nx - 1 - k) \X (k .. Ny - 1 - k) : TRUE}

\* the points of a 1D field at least k cells from each end
Points(k) == Batches \X (k .. Nx - 1 - k)

\* Laplacian of the input field at cell (i, j)
ExactLap(b, i, j) ==
  IF IsPoly THEN RAdd(ExactD2(inp.fam.c, inp.fam.n, XAt(i)), ExactD2(1, inp.fam.m, YAt(j)))
  ELSE RMul(RInt(-2), inp.u[b][i][j])

\* the five-point Laplacian of the samples at the interior cell (i, j)
DiscreteLap(b, i, j) ==
  RAdd(Central2(inp.u[b][i - 1][j], inp.u[b][i][j], inp.u[b][i + 1][j], Nx),
       Central2(inp.u[b][i][j - 1], inp.u[b][i][j], inp.u[b][i][j + 1], Ny))

\* the input is u = X^2 + Y^2
IsSumOfSquares == IsPoly /\ inp.dim = 2 /\ inp.fam.c = 1 /\ inp.fam.n = 2 /\ inp.fam.m = 2

IsTestGrid == inp.shape[2] >= GridN

Called(op, eng) == call.op = op /\ call.eng = eng

-----------------------------------------------------------------------------
(* C1: the Poisson evaluators return Laplacian(u) - rhs at every cell       *)
(* (autograd: the exact Laplacian, within 1e-6; finite differences: the     *)
(* five-point Laplacian at the interior cells, which is the exact one       *)
(* within 1e-2 for polynomials of degree at most 3); for u = X^2 + Y^2 and  *)
(* rhs = 4 the residual is 0 at every cell (autograd) and at every interior *)
(* cell [1:-1, 1:-1] (finite differences).                                  *)
C1_PoissonResidual ==
  call.op = "poisson" =>
    LET r == RInt(call.rhs)
        res == out[1]
    IN  /\ call.eng = "autograd" =>
             \A x \in Cells(0) :
               RClose(res[x[1]][x[2]][x[3]], RSub(ExactLap(x[1], x[2], x[3]), r), 1000000)
        /\ call.eng = "finitediff" =>
             \A x \in Cells(1) :
               /\ res[x[1]][x[2]][x[3]] = RSub(DiscreteLap(x[1], x[2], x[3]), r)
               /\ (IsPoly /\ inp.fam.n <= 3 /\ inp.fam.m <= 3) =>
                    RClose(res[x[1]][x[2]][x[3]], RSub(ExactLap(x[1], x[2], x[3]), r), 100)
        /\ (IsSumOfSquares /\ call.rhs = 4) =>
             \A x \in Cells(IF call.eng = "autograd" THEN 0 ELSE 1) :
               RClose(res[x[1]][x[2]][x[3]], RZero,
                      IF call.eng = "autograd" THEN 1000000 ELSE 100)

\* test_poisson_residual_finitediff has run: u = X^2 + Y^2 on the 10 x 10
\* grid, rhs = 4, and the residual vanishes on the interior
C1_Witness ==
  /\ Called("poisson", "finitediff") /\ IsSumOfSquares /\ call.rhs = 4
  /\ inp.shape = <<BatchSize, GridN, GridN>>
  /\ \A x \in Cells(1) : out[1][x[1]][x[2]][x[3]] = RZero

(* C2: the Darcy evaluators return div(a grad u) + rhs, the flux components *)
(* being differentiated again: for u = c X^n + Y^m and a = a0 + a1 X the    *)
(* autograd residual is a1 c n X^(n-1) + a (u_xx + u_yy) + rhs at every     *)
(* cell, and so is the finite-difference residual at every cell at least 2  *)
(* cells from each edge when n, m <= 2; for u = X^2 + Y^2, a = 1, rhs = 1   *)
(* the residual is 5 there, also on the 20 x 10 grid.                       *)
DarcyA1 == IF Len(call.a) = 2 THEN 1 ELSE 0

ExactDarcy(b, i, j) ==
  RAdd(RAdd(RMul(RInt(DarcyA1), ExactD1(inp.fam.c, inp.fam.n, XAt(i))),
            RMul(RAdd(RInt(1), RMul(RInt(DarcyA1), XAt(i))), ExactLap(b, i, j))),
       RInt(call.rhs))

C2_DarcyResidual ==
  call.op = "darcy" =>
    LET res == out[1]
    IN  /\ call.eng = "autograd" =>
             \A x \in Cells(0) :
               RClose(res[x[1]][x[2]][x[3]], ExactDarcy(x[1], x[2], x[3]), 1000000)
        /\ (call.eng = "finitediff" /\ inp.fam.n <= 2 /\ inp.fam.m <= 2) =>
             \A x \in Cells(2) :
               RClose(res[x[1]][x[2]][x[3]], ExactDarcy(x[1], x[2], x[3]), 100)
        /\ (IsSumOfSquares /\ call.rhs = 1 /\ DarcyA1 = 0) =>
             \A x \in Cells(IF call.eng = "autograd" THEN 0 ELSE 2) :
               RClose(res[x[1]][x[2]][x[3]], RInt(5),
                      IF call.eng = "autograd" THEN 1000000 ELSE 100)

\* test_darcy_residual_finitediff has run: u = X^2 + Y^2 on the 20 x 10 grid,
\* a = 1, rhs = 1, and the residual is 5 two cells from the edges
C2_Witness ==
  /\ Called("darcy", "finitediff") /\ IsSumOfSquares /\ call.rhs = 1 /\ DarcyA1 = 0
  /\ inp.shape = <<BatchSize, DarcyNx, GridN>>
  /\ \A x \in Cells(2) : out[1][x[1]][x[2]][x[3]] = RInt(5)

(* C3: the Helmholtz evaluators return Laplacian(u) + k^2 u (autograd: the  *)
(* exact Laplacian at every cell; finite differences: the five-point        *)
(* Laplacian at the interior cells); for u = sin(X) cos(Y) and k = 2 the    *)
(* residual is 2u at every cell (autograd, 1e-6) and at every interior cell *)
(* (finite differences, 1e-2).                                              *)
C3_HelmholtzResidual ==
  call.op = "helmholtz" =>
    LET res == out[1]
        k2u(b, i, j) == RMul(RInt(call.k * call.k), inp.u[b][i][j])
    IN  /\ call.eng = "autograd" =>
             \A x \in Cells(0) :
               RClose(res[x[1]][x[2]][x[3]],
                      RAdd(ExactLap(x[1], x[2], x[3]), k2u(x[1], x[2], x[3])), 1000000)
        /\ call.eng = "finitediff" =>
             \A x \in Cells(1) :
               res[x[1]][x[2]][x[3]] =
                 RAdd(DiscreteLap(x[1], x[2], x[3]), k2u(x[1], x[2], x[3]))
        /\ (~IsPoly /\ call.k = 2) =>
             \A x \in Cells(IF call.eng = "autograd" THEN 0 ELSE 1) :
               RClose(res[x[1]][x[2]][x[3]], RMul(RInt(2), inp.u[x[1]][x[2]][x[3]]),
                      IF call.eng = "autograd" THEN 1000000 ELSE 100)

\* test_helmholtz_residual_finitediff has run: u = sin(X) cos(Y), k = 2, and
\* the residual is within 1e-2 of 2u on the interior without being equal to it
C3_Witness ==
  /\ Called("helmholtz", "finitediff") /\ ~IsPoly /\ call.k = 2
  /\ \A x \in Cells(1) :
       RClose(out[1][x[1]][x[2]][x[3]], RMul(RInt(2), inp.u[x[1]][x[2]][x[3]]), 100)
  /\ \E x \in Cells(1) :
       out[1][x[1]][x[2]][x[3]] # RMul(RInt(2), inp.u[x[1]][x[2]][x[3]])

(* C4: on a grid of the autograd factory, for u = c x^n (1D) and            *)
(* u = c X^n + Y^m (2D), first_order_* return the closed-form first         *)
(* derivatives and second_order_* the closed-form first and second          *)
(* derivatives, at every grid point, the boundary included, within 1e-6.    *)
C4_AutogradDerivatives ==
  (call.eng = "autograd" /\ IsPoly) =>
    LET c == inp.fam.c
        n == inp.fam.n
        m == inp.fam.m
    IN  /\ call.op = "first_order_1d" =>
             \A x \in Points(0) :
               RClose(out[1][x[1]][x[2]], ExactD1(c, n, XAt(x[2])), 1000000)
        /\ call.op = "second_order_1d" =>
             \A x \in Points(0) :
               /\ RClose(out[1][x[1]][x[2]], ExactD1(c, n, XAt(x[2])), 1000000)
               /\ RClose(out[2][x[1]][x[2]], ExactD2(c, n, XAt(x[2])), 1000000)
        /\ call.op \in {"first_order_2d", "second_order_2d"} =>
             \A x \in Cells(0) :
               /\ RClose(out[1][x[1]][x[2]][x[3]], ExactD1(c, n, XAt(x[2])), 1000000)
               /\ RClose(out[2][x[1]][x[2]][x[3]], ExactD1(1, m, YAt(x[3])), 1000000)
        /\ call.op = "second_order_2d" =>
             \A x \in Cells(0) :
               /\ RClose(out[3][x[1]][x[2]][x[3]], ExactD2(c, n, XAt(x[2])), 1000000)
               /\ RClose(out[4][x[1]][x[2]][x[3]], ExactD2(1, m, YAt(x[3])), 1000000)

\* test_second_order_2d_autograd has run: u = X^3 + Y^3 on the 10 x 10 grid,
\* and u_xx = 6X holds on the boundary row X = 1 too
C4_Witness ==
  /\ Called("second_order_2d", "autograd") /\ IsPoly
  /\ inp.fam = Family("poly", 1, 3, 3) /\ inp.shape = <<BatchSize, GridN, GridN>>
  /\ \A j \in Idx(Ny) : out[3][0][Nx - 1][j] = RInt(6)

SameShape(f, u) ==
  /\ DOMAIN f = DOMAIN u
  /\ \A b \in DOMAIN u :
       /\ DOMAIN f[b] = DOMAIN u[b]
       /\ inp.dim = 2 => \A i \in DOMAIN u[b] : DOMAIN f[b][i] = DOMAIN u[b][i]

CoefAt(i, j) == EvalSym(call.a, i, j, Nx, Ny)

\* a * u_x and a * u_y at an interior cell, from the samples
FluxX(b, i, j) == RMul(CoefAt(i, j), Central1(inp.u[b][i - 1][j], inp.u[b][i + 1][j], Nx))

FluxY(b, i, j) == RMul(CoefAt(i, j), Central1(inp.u[b][i][j - 1], inp.u[b][i][j + 1], Ny))

C6_BoundaryNotUpdated ==
  call.eng = "finitediff" =>
    LET u == inp.u
        two == RAdd(call.fill, call.fill)
    IN  /\ \A k \in 1..Len(out) : SameShape(out[k], u)
        /\ call.op \in {"first_order_1d", "second_order_1d"} =>
             /\ \A x \in Points(0) \ Points(1) : out[1][x[1]][x[2]] = call.fill
             /\ \A x \in Points(1) :
                  out[1][x[1]][x[2]] =
                    IF call.op = "first_order_1d"
                    THEN Central1(u[x[1]][x[2] - 1], u[x[1]][x[2] + 1], Nx)
                    ELSE Central2(u[x[1]][x[2] - 1], u[x[1]][x[2]], u[x[1]][x[2] + 1], Nx)
        /\ call.op \in {"first_order_2d", "second_order_2d"} =>
             /\ \A x \in Cells(0) \ Cells(1), k \in 1..2 :
                  out[k][x[1]][x[2]][x[3]] = call.fill
             /\ \A x \in Cells(1) :
                  LET b == x[1]
                      i == x[2]
                      j == x[3]
                  IN  IF call.op = "first_order_2d"
                      THEN /\ out[1][b][i][j] = Central1(u[b][i - 1][j], u[b][i + 1][j], Nx)
                           /\ out[2][b][i][j] = Central1(u[b][i][j - 1], u[b][i][j + 1], Ny)
                      ELSE /\ out[1][b][i][j] =
                                Central2(u[b][i - 1][j], u[b][i][j], u[b][i + 1][j], Nx)
                           /\ out[2][b][i][j] =
                                Central2(u[b][i][j - 1], u[b][i][j], u[b][i][j + 1], Ny)
        /\ call.op = "poisson" =>
             \A x \in Cells(0) \ Cells(1) :
               out[1][x[1]][x[2]][x[3]] = RSub(two, RInt(call.rhs))
        /\ call.op = "helmholtz" =>
             \A x \in Cells(0) \ Cells(1) :
               out[1][x[1]][x[2]][x[3]] =
                 RAdd(two, RMul(RInt(call.k * call.k), u[x[1]][x[2]][x[3]]))
        /\ call.op = "darcy" =>
             /\ \A x \in Cells(0) \ Cells(1) :
                  out[1][x[1]][x[2]][x[3]] = RAdd(two, RInt(call.rhs))
             /\ \A x \in Cells(2) :
                  LET b == x[1]
                      i == x[2]
                      j == x[3]
                  IN  out[1][b][i][j] =
                        RAdd(RAdd(Central1(FluxX(b, i - 1, j), FluxX(b, i + 1, j), Nx),
                                  Central1(FluxY(b, i, j - 1), FluxY(b, i, j + 1), Ny)),
                             RInt(call.rhs))

\* DarcyResidualFiniteDiff has run on u = X^2 + Y^2, a = 1, rhs = 1: the
\* residual is 5 two cells from the edges, and is not 5 at a cell one cell
\* from an edge nor on the boundary
C6_Witness ==
  /\ Called("darcy", "finitediff") /\ IsSumOfSquares /\ call.rhs = 1 /\ DarcyA1 = 0
  /\ \A x \in Cells(2) : out[1][x[1]][x[2]][x[3]] = RInt(5)
  /\ \E x \in Cells(1) \ Cells(2) : out[1][x[1]][x[2]][x[3]] # RInt(5)
  /\ \E x \in Cells(0) \ Cells(1) : out[1][x[1]][x[2]][x[3]] # RInt(5)

(***************************************************************************)
(* LOSS AGGREGATION AND THE EVALUATION LOOPS OF train.py                   *)
(*                                                                         *)
(* train.py imports LprelLoss, H1relLoss, H1relLoss_1D and their _multiout *)
(* forms from loss_fun.py.  A loss value is a float: here it is either an  *)
(* exact finite number or one of the two IEEE results of a division by a   *)
(* zero norm, inf (x/0, x > 0) and nan (0/0).  A finite value is a sum of  *)
(* square roots, kept as the set of pairs <<r, q>> standing for q*sqrt(r), *)
(* r squarefree, q a nonzero rational: two values are equal as numbers     *)
(* exactly when they are equal as sets.                                    *)
(***************************************************************************)

MaxTest == 2

Fin(t) == [k |-> "fin", t |-> t]

FZero == Fin({})

FInf == [k |-> "inf", t |-> {}]

FNaN == [k |-> "nan", t |-> {}]

IsFinite(v) == v.k = "fin"

CoefOf(t, r) == IF \E p \in t : p[1] = r THEN (CHOOSE p \in t : p[1] = r)[2] ELSE RZero

\* float addition: nan absorbs everything, inf absorbs the finite values
\* (a loss is never negative, so inf - inf does not arise)
FltAdd(v, w) ==
  IF v.k = "nan" \/ w.k = "nan" THEN FNaN
  ELSE IF v.k = "inf" \/ w.k = "inf" THEN FInf
  ELSE LET rs == {p[1] : p \in v.t \cup w.t}
           all == {<<r, RAdd(CoefOf(v.t, r), CoefOf(w.t, r))>> : r \in rs}
       IN Fin({p \in all : p[2] # RZero})

\* float division by a positive count
FltDiv(v, n) ==
  IF v.k = "fin" THEN Fin({<<p[1], RMul(p[2], Rat(1, n))>> : p \in v.t}) ELSE v

RECURSIVE SquarePartFrom(_, _)
SquarePartFrom(n, d) ==
  IF d * d > n THEN 1
  ELSE IF n % (d * d) = 0 THEN d * SquarePartFrom(n \div (d * d), d)
  ELSE SquarePartFrom(n, d + 1)

\* the largest s with s*s dividing n
SquarePart(n) == SquarePartFrom(n, 2)

\* a / b as a float
FltRatio(a, b) ==
  IF b = 0 THEN (IF a = 0 THEN FNaN ELSE FInf)
  ELSE IF a = 0 THEN FZero
  ELSE Fin({<<1, Rat(a, b)>>})

\* sqrt(a) / sqrt(b) as a float
FltSqrtRatio(a, b) ==
  IF b = 0 THEN (IF a = 0 THEN FNaN ELSE FInf)
  ELSE IF a = 0 THEN FZero
  ELSE LET g  == GCD(a, b)
           a1 == a \div g
           b1 == b \div g
           sa == SquarePart(a1)
           sb == SquarePart(b1)
           ra == a1 \div (sa * sa)
           rb == b1 \div (sb * sb)
       IN Fin({<<ra * rb, Rat(sa, sb * rb)>>})

RECURSIVE SumOver(_, _)
SumOver(S, f) ==
  IF S = {} THEN 0
  ELSE LET x == CHOOSE z \in S : TRUE IN f[x] + SumOver(S \ {x}, f)

RECURSIVE FltSum(_)
FltSum(seq) == IF seq = <<>> THEN FZero ELSE FltAdd(Head(seq), FltSum(Tail(seq)))

(***************************************************************************)
(* Tensors of the evaluation loops.  A sample is a function from           *)
(* <<point, channel>> to an integer; a point of a problem_dim-dimensional  *)
(* grid with two nodes per axis is a sequence of problem_dim bits.  A      *)
(* batch is a sequence of samples (axis 0 of the tensor).                  *)
(***************************************************************************)

Channels == {0, 1}

GridPoints(dim) == [1 .. dim -> {0, 1}]

SampleDim(u) == Len((CHOOSE x \in DOMAIN u : TRUE)[1])

ChannelsOf(u) == {x[2] : x \in DOMAIN u}

\* the slice [..., c] of a batch, kept as a tensor with the single channel c
ChannelSlice(x, c) ==
  [b \in DOMAIN x |-> [z \in {w \in DOMAIN x[b] : w[2] = c} |-> x[b][z]]]

FieldSub(u, v) == [x \in DOMAIN u |-> u[x] - v[x]]

FieldScale(c, u) == [x \in DOMAIN u |-> c * u[x]]

\* sum of |u|^p over the points of the channels chs
PowSum(u, p, chs) ==
  LET pts == GridPoints(SampleDim(u))
      term(x) == IF p = 1 THEN Abs(u[x]) ELSE u[x] * u[x]
  IN SumOver(pts \X chs, [x \in pts \X chs |-> term(x)])

\* the discrete Fourier coefficient of channel ch at wavenumber k: on two
\* nodes per axis the transform is the sum with signs (-1)^(k.s)
Hat(u, ch, k) ==
  LET pts == GridPoints(SampleDim(u))
      dot(s) == SumOver(DOMAIN k, [i \in DOMAIN k |-> k[i] * s[i]])
      term(s) == IF dot(s) % 2 = 0 THEN u[<<s, ch>>] ELSE 0 - u[<<s, ch>>]
  IN SumOver(pts, [s \in pts |-> term(s)])

\* the squared spectral H1 norm: sum of (alpha + beta*|k|^2) * |u^(k)|^2
H1Sum(u, beta, alpha, chs) ==
  LET pts == GridPoints(SampleDim(u))
      ksq(k) == SumOver(DOMAIN k, [i \in DOMAIN k |-> k[i] * k[i]])
      term(x) == LET h == Hat(u, x[2], x[1]) IN (alpha + beta * ksq(x[1])) * h * h
  IN SumOver(pts \X chs, [x \in pts \X chs |-> term(x)])

\* the relative error of one sample: norm of x - y over norm of y
LpRel(p, x, y, chs) ==
  IF p = 1 THEN FltRatio(PowSum(FieldSub(x, y), 1, chs), PowSum(y, 1, chs))
  ELSE FltSqrtRatio(PowSum(FieldSub(x, y), 2, chs), PowSum(y, 2, chs))

H1Rel(beta, alpha, x, y, chs) ==
  FltSqrtRatio(H1Sum(FieldSub(x, y), beta, alpha, chs), H1Sum(y, beta, alpha, chs))

\* reduction over the batch axis: the mean if size_mean, else the sum
Reduce(vals, size_mean) ==
  IF size_mean THEN FltDiv(FltSum(vals), Len(vals)) ELSE FltSum(vals)

LprelLoss(p, size_mean, x, y) ==
  Reduce([b \in DOMAIN x |-> LpRel(p, x[b], y[b], ChannelsOf(y[b]))], size_mean)

H1relLoss_1D(beta, size_mean, alpha, x, y) ==
  Reduce([b \in DOMAIN x |-> H1Rel(beta, alpha, x[b], y[b], ChannelsOf(y[b]))], size_mean)

H1relLoss(beta, size_mean, alpha, x, y) ==
  Reduce([b \in DOMAIN x |-> H1Rel(beta, alpha, x[b], y[b], ChannelsOf(y[b]))], size_mean)

LprelLoss_multiout(p, size_mean, x, y) ==
  [c \in ChannelsOf(y[1]) |-> Reduce([b \in DOMAIN x |-> LpRel(p, x[b], y[b], {c})], size_mean)]

H1relLoss_1D_multiout(beta, size_mean, alpha, x, y) ==
  [c \in ChannelsOf(y[1]) |->
     Reduce([b \in DOMAIN x |-> H1Rel(beta, alpha, x[b], y[b], {c})], size_mean)]

H1relLoss_multiout(beta, size_mean, alpha, x, y) ==
  [c \in ChannelsOf(y[1]) |->
     Reduce([b \in DOMAIN x |-> H1Rel(beta, alpha, x[b], y[b], {c})], size_mean)]

\* torch.zeros(dim_output) and the elementwise tensor operations
TorchZeros(dim_output) == [c \in 0 .. dim_output - 1 |-> FZero]

VecAdd(v, w) == [c \in DOMAIN v |-> FltAdd(v[c], w[c])]

VecDiv(v, n) == [c \in DOMAIN v |-> FltDiv(v[c], n)]

(***************************************************************************)
(* The model under evaluation and its loaders.  A sample of a loader is    *)
(* the input x, the target y and pred = model.forward(x); the network is   *)
(* a function of its input, so samples with one x have one pred.           *)
(***************************************************************************)

Pattern(name, s, ch) ==
  CASE name = "zero"  -> 0
    [] name = "const" -> 1 + ch
    [] name = "ramp"  -> s[1] + ch * (1 + s[Len(s)])
    [] name = "hill"  -> 2 * s[1] - 1 + 2 * ch * (1 - s[Len(s)])

Field(name, dim) == [x \in GridPoints(dim) \X Channels |-> Pattern(name, x[1], x[2])]

InputField(id, dim) == [x \in GridPoints(dim) \X Channels |-> id + x[1][1]]

MakeSample(id, yname, predname, dim) ==
  [x |-> InputField(id, dim), y |-> Field(yname, dim), pred |-> Field(predname, dim)]

\* exact prediction; wrong prediction; zero target with zero and with
\* nonzero prediction; spatially constant target (its gradient is zero)
TestSamples(dim) ==
  { MakeSample(1, "ramp", "ramp", dim),
    MakeSample(2, "hill", "ramp", dim),
    MakeSample(3, "ramp", "const", dim),
    MakeSample(4, "zero", "zero", dim),
    MakeSample(5, "zero", "hill", dim),
    MakeSample(6, "const", "ramp", dim) }

\* the train loader with the exponent p of the loss the training used
TrainSets(dim) ==
  { [loss_p |-> 2, train |-> <<MakeSample(1, "ramp", "ramp", dim)>>],
    [loss_p |-> 1,
     train |-> <<MakeSample(3, "ramp", "const", dim), MakeSample(2, "hill", "ramp", dim),
                 MakeSample(6, "const", "ramp", dim)>>] }

SeqsUpTo(S, n) == UNION {[1 .. m -> S] : m \in 1 .. n}

Datasets ==
  UNION { { [problem_dim |-> dim, batch_size |-> bs, loss_p |-> tr.loss_p,
             test |-> te, train |-> tr.train]
            : bs \in {1, 2}, te \in SeqsUpTo(TestSamples(dim), MaxTest),
              tr \in TrainSets(dim) }
          : dim \in {1, 2, 3} }

\* a DataLoader without shuffling: consecutive chunks of batch_size samples
NumBatches(loader, batch_size) == (Len(loader) + batch_size - 1) \div batch_size

LoaderBatch(loader, batch_size, i) ==
  LET hi == IF i * batch_size < Len(loader) THEN i * batch_size ELSE Len(loader)
  IN SubSeq(loader, (i - 1) * batch_size + 1, hi)

input_batch(b) == [i \in DOMAIN b |-> b[i].x]

output_batch(b) == [i \in DOMAIN b |-> b[i].y]

\* model.forward(input_batch)
output_pred_batch(b) == [i \in DOMAIN b |-> b[i].pred]

\* the loss the training used, and the default loss_phys of validate_epoch
loss(p, x, y) == LprelLoss(p, FALSE, x, y)

loss_phys(x, y) == FZero

EvalInit ==
  /\ inp = <<>> /\ grid = <<>> /\ call = NoCall /\ out = <<>>
  /\ ds \in Datasets
  /\ pc = "idle" /\ ti = 1 /\ tri = 1
  /\ acc = <<>> /\ ret = <<>> /\ raised = "none"
  /\ training \in BOOLEAN
  /\ obj = <<>> /\ tensors = <<>> /\ frames = <<>> /\ scratch = <<>> /\ seen = <<>>
  /\ config = <<>> /\ run = <<>> /\ trial = <<>> /\ checkpoint = <<>>
  /\ cli = <<>> /\ job = <<>> /\ net = <<>> /\ disk = <<>>

(***************************************************************************)
(* validate_epoch                                                          *)
(***************************************************************************)

validate_epoch_enter ==
  /\ pc = "idle"
  /\ pc' = "validate_epoch"
  /\ training' = FALSE
  /\ acc' = [test_relative_l1 |-> FZero, test_relative_l2 |-> FZero,
             test_relative_semih1 |-> FZero, test_relative_h1 |-> FZero,
             train_loss |-> FZero,
             training_samples_count |-> 0, test_samples_count |-> 0]
  /\ ti' = 1 /\ tri' = 1
  /\ UNCHANGED <<physVars, objVars, fixedVars, tuneVars, cliVars, loopVars, ds, ret, raised>>

\* validate_epoch_test_batch with the losses taken against input_batch
validate_epoch_test_batch_vs_input ==
  /\ pc = "validate_epoch"
  /\ ti <= NumBatches(ds.test, ds.batch_size)
  /\ LET b    == LoaderBatch(ds.test, ds.batch_size, ti)
         pred == output_pred_batch(b)
         y    == input_batch(b)
         semih1 ==
           IF ds.problem_dim = 1
             THEN FltAdd(acc.test_relative_semih1, H1relLoss_1D(1, FALSE, 0, pred, y))
           ELSE IF ds.problem_dim = 2
             THEN FltAdd(acc.test_relative_semih1, H1relLoss(1, FALSE, 0, pred, y))
           ELSE acc.test_relative_semih1
         h1 ==
           IF ds.problem_dim = 1
             THEN FltAdd(acc.test_relative_h1, H1relLoss_1D(1, FALSE, 1, pred, y))
           ELSE IF ds.problem_dim = 2
             THEN FltAdd(acc.test_relative_h1, H1relLoss(1, FALSE, 1, pred, y))
           ELSE acc.test_relative_h1
     IN acc' = [acc EXCEPT
                  !.test_samples_count = @ + Len(b),
                  !.test_relative_l1 = FltAdd(@, LprelLoss(1, FALSE, pred, y)),
                  !.test_relative_l2 = FltAdd(@, LprelLoss(2, FALSE, pred, y)),
                  !.test_relative_semih1 = semih1,
                  !.test_relative_h1 = h1]
  /\ ti' = ti + 1
  /\ UNCHANGED <<physVars, objVars, fixedVars, tuneVars, cliVars, loopVars, ds, pc, tri, ret, raised, training>>

\* validate_epoch_test_batch with the Lp losses reduced by the mean over the batch
validate_epoch_test_batch_size_mean ==
  /\ pc = "validate_epoch"
  /\ ti <= NumBatches(ds.test, ds.batch_size)
  /\ LET b    == LoaderBatch(ds.test, ds.batch_size, ti)
         pred == output_pred_batch(b)
         y    == output_batch(b)
         semih1 ==
           IF ds.problem_dim = 1
             THEN FltAdd(acc.test_relative_semih1, H1relLoss_1D(1, FALSE, 0, pred, y))
           ELSE IF ds.problem_dim = 2
             THEN FltAdd(acc.test_relative_semih1, H1relLoss(1, FALSE, 0, pred, y))
           ELSE acc.test_relative_semih1
         h1 ==
           IF ds.problem_dim = 1
             THEN FltAdd(acc.test_relative_h1, H1relLoss_1D(1, FALSE, 1, pred, y))
           ELSE IF ds.problem_dim = 2
             THEN FltAdd(acc.test_relative_h1, H1relLoss(1, FALSE, 1, pred, y))
           ELSE acc.test_relative_h1
     IN acc' = [acc EXCEPT
                  !.test_samples_count = @ + Len(b),
                  !.test_relative_l1 = FltAdd(@, LprelLoss(1, TRUE, pred, y)),
                  !.test_relative_l2 = FltAdd(@, LprelLoss(2, TRUE, pred, y)),
                  !.test_relative_semih1 = semih1,
                  !.test_relative_h1 = h1]
  /\ ti' = ti + 1
  /\ UNCHANGED <<physVars, objVars, fixedVars, tuneVars, cliVars, loopVars, ds, pc, tri, ret, raised, training>>

\* one iteration of the loop over test_loader
validate_epoch_test_batch ==
  /\ pc = "validate_epoch"
  /\ ti <= NumBatches(ds.test, ds.batch_size)
  /\ LET b    == LoaderBatch(ds.test, ds.batch_size, ti)
         pred == output_pred_batch(b)
         y    == output_batch(b)
         semih1 ==
           IF ds.problem_dim = 1
             THEN FltAdd(acc.test_relative_semih1, H1relLoss_1D(1, FALSE, 0, pred, y))
           ELSE IF ds.problem_dim = 2
             THEN FltAdd(acc.test_relative_semih1, H1relLoss(1, FALSE, 0, pred, y))
           ELSE acc.test_relative_semih1
         h1 ==
           IF ds.problem_dim = 1
             THEN FltAdd(acc.test_relative_h1, H1relLoss_1D(1, FALSE, 1, pred, y))
           ELSE IF ds.problem_dim = 2
             THEN FltAdd(acc.test_relative_h1, H1relLoss(1, FALSE, 1, pred, y))
           ELSE acc.test_relative_h1
     IN acc' = [acc EXCEPT
                  !.test_samples_count = @ + Len(b),
                  !.test_relative_l1 = FltAdd(@, LprelLoss(1, FALSE, pred, y)),
                  !.test_relative_l2 = FltAdd(@, LprelLoss(2, FALSE, pred, y)),
                  !.test_relative_semih1 = semih1,
                  !.test_relative_h1 = h1]
  /\ ti' = ti + 1
  /\ UNCHANGED <<physVars, objVars, fixedVars, tuneVars, cliVars, loopVars, ds, pc, tri, ret, raised, training>>

\* one iteration of the loop over train_loader, entered when the test loop ended
validate_epoch_train_batch ==
  /\ pc = "validate_epoch"
  /\ ti > NumBatches(ds.test, ds.batch_size)
  /\ tri <= NumBatches(ds.train, ds.batch_size)
  /\ LET b    == LoaderBatch(ds.train, ds.batch_size, tri)
         pred == output_pred_batch(b)
         loss_f == FltAdd(loss(ds.loss_p, pred, output_batch(b)),
                          loss_phys(pred, input_batch(b)))
     IN acc' = [acc EXCEPT
                  !.training_samples_count = @ + Len(b),
                  !.train_loss = FltAdd(@, loss_f)]
  /\ tri' = tri + 1
  /\ UNCHANGED <<physVars, objVars, fixedVars, tuneVars, cliVars, loopVars, ds, pc, ti, ret, raised, training>>

\* the five divisions and the return; a Python float divided by a zero
\* count raises ZeroDivisionError
validate_epoch_return ==
  /\ pc = "validate_epoch"
  /\ ti > NumBatches(ds.test, ds.batch_size)
  /\ tri > NumBatches(ds.train, ds.batch_size)
  /\ pc' = "validate_epoch_done"
  /\ IF acc.test_samples_count = 0 \/ acc.training_samples_count = 0
       THEN /\ raised' = "ZeroDivisionError"
            /\ ret' = <<>>
       ELSE /\ raised' = "none"
            /\ ret' = << FltDiv(acc.test_relative_l1, acc.test_samples_count),
                         FltDiv(acc.test_relative_l2, acc.test_samples_count),
                         FltDiv(acc.test_relative_semih1, acc.test_samples_count),
                         FltDiv(acc.test_relative_h1, acc.test_samples_count),
                         FltDiv(acc.train_loss, acc.training_samples_count) >>
  /\ UNCHANGED <<physVars, objVars, fixedVars, tuneVars, cliVars, loopVars, ds, ti, tri, acc, training>>

(***************************************************************************)
(* test_fun_multiout                                                       *)
(***************************************************************************)

dim_output == Cardinality(Channels)

test_fun_multiout_enter ==
  /\ pc = "idle"
  /\ pc' = "test_fun_multiout"
  /\ training' = FALSE
  /\ acc' = [test_relative_l1_multiout |-> TorchZeros(dim_output),
             test_relative_l2_multiout |-> TorchZeros(dim_output),
             test_relative_semih1_multiout |-> TorchZeros(dim_output),
             test_relative_h1_multiout |-> TorchZeros(dim_output),
             test_samples_count |-> 0]
  /\ ti' = 1 /\ tri' = 1
  /\ UNCHANGED <<physVars, objVars, fixedVars, tuneVars, cliVars, loopVars, ds, ret, raised>>

\* one iteration of the loop over test_loader
test_fun_multiout_batch ==
  /\ pc = "test_fun_multiout"
  /\ ti <= NumBatches(ds.test, ds.batch_size)
  /\ LET b    == LoaderBatch(ds.test, ds.batch_size, ti)
         pred == output_pred_batch(b)
         y    == output_batch(b)
         semih1 ==
           IF ds.problem_dim = 1
             THEN VecAdd(acc.test_relative_semih1_multiout,
                         H1relLoss_1D_multiout(1, FALSE, 0, pred, y))
           ELSE IF ds.problem_dim = 2
             THEN VecAdd(acc.test_relative_semih1_multiout,
                         H1relLoss_multiout(1, FALSE, 0, pred, y))
           ELSE acc.test_relative_semih1_multiout
         h1 ==
           IF ds.problem_dim = 1
             THEN VecAdd(acc.test_relative_h1_multiout,
                         H1relLoss_1D_multiout(1, FALSE, 1, pred, y))
           ELSE IF ds.problem_dim = 2
             THEN VecAdd(acc.test_relative_h1_multiout,
                         H1relLoss_multiout(1, FALSE, 1, pred, y))
           ELSE acc.test_relative_h1_multiout
     IN acc' = [acc EXCEPT
                  !.test_samples_count = @ + Len(b),
                  !.test_relative_l1_multiout =
                     VecAdd(@, LprelLoss_multiout(1, FALSE, pred, y)),
                  !.test_relative_l2_multiout =
                     VecAdd(@, LprelLoss_multiout(2, FALSE, pred, y)),
                  !.test_relative_semih1_multiout = semih1,
                  !.test_relative_h1_multiout = h1]
  /\ ti' = ti + 1
  /\ UNCHANGED <<physVars, objVars, fixedVars, tuneVars, cliVars, loopVars, ds, pc, tri, ret, raised, training>>

\* the four tensor divisions and the return
test_fun_multiout_return ==
  /\ pc = "test_fun_multiout"
  /\ ti > NumBatches(ds.test, ds.batch_size)
  /\ pc' = "test_fun_multiout_done"
  /\ ret' = << VecDiv(acc.test_relative_l1_multiout, acc.test_samples_count),
               VecDiv(acc.test_relative_l2_multiout, acc.test_samples_count),
               VecDiv(acc.test_relative_semih1_multiout, acc.test_samples_count),
               VecDiv(acc.test_relative_h1_multiout, acc.test_samples_count) >>
  /\ UNCHANGED <<physVars, objVars, fixedVars, tuneVars, cliVars, loopVars, ds, ti, tri, acc, raised, training>>

\* the caller takes the returned tuple and goes on with the epoch loop
caller_continue ==
  /\ pc \in {"validate_epoch_done", "test_fun_multiout_done"}
  /\ pc' = "idle"
  /\ ti' = 1 /\ tri' = 1
  /\ acc' = <<>> /\ ret' = <<>> /\ raised' = "none"
  /\ UNCHANGED <<physVars, objVars, fixedVars, tuneVars, cliVars, loopVars, ds, training>>

EvalNext ==
  \/ validate_epoch_enter
  \/ validate_epoch_test_batch
  \/ validate_epoch_train_batch
  \/ validate_epoch_return
  \/ test_fun_multiout_enter
  \/ test_fun_multiout_batch
  \/ test_fun_multiout_return
  \/ caller_continue

SpecEval == EvalInit /\ [][EvalNext]_vars

(***************************************************************************)
(* Claims about the loss aggregation                                       *)
(***************************************************************************)

InValidate == pc \in {"validate_epoch", "validate_epoch_done"}

\* the test samples the loop over test_loader has gone through
SeenBatches == 1 .. (ti - 1)

Seen ==
  LET n == (ti - 1) * ds.batch_size
  IN SubSeq(ds.test, 1, IF n < Len(ds.test) THEN n ELSE Len(ds.test))

ZeroNorm(y) == PowSum(y, 1, ChannelsOf(y)) = 0

Exact(s) == s.pred = s.y

Scales == {-2, -1, 2, 3}

ScaleBatch(c, x) == [b \in DOMAIN x |-> FieldScale(c, x[b])]

\* C7: the relative Lp loss (p = 1, 2) of a nonzero tensor against itself is
\* zero: for every target of the test loader the loss LprelLoss(p)(y, y) is
\* exactly 0, and while validate_epoch has seen only samples whose prediction
\* equals a nonzero target its running L1 and L2 sums, and the two means it
\* returns, are exactly 0.
C7_SelfLossZero ==
  /\ \A i \in DOMAIN ds.test : \A p \in {1, 2} : \A size_mean \in BOOLEAN :
       ~ZeroNorm(ds.test[i].y) =>
         LprelLoss(p, size_mean, <<ds.test[i].y>>, <<ds.test[i].y>>) = FZero
  /\ (InValidate /\ \A i \in DOMAIN Seen : Exact(Seen[i]) /\ ~ZeroNorm(Seen[i].y)) =>
       /\ acc.test_relative_l1 = FZero
       /\ acc.test_relative_l2 = FZero
       /\ pc = "validate_epoch_done" => ret[1] = FZero /\ ret[2] = FZero

C7_Witness ==
  /\ pc = "validate_epoch_done"
  /\ Len(ds.test) = 2
  /\ \A i \in DOMAIN ds.test : Exact(ds.test[i]) /\ ~ZeroNorm(ds.test[i].y)
  /\ ret[1] = FZero /\ ret[2] = FZero
  /\ ret[5] # FZero

\* C8: the relative Lp loss does not change when prediction and target are
\* both multiplied by one nonzero constant c, negative c included: the L1 and
\* L2 sums validate_epoch has accumulated over batches with nonzero targets
\* equal, for every such c, the sums of the losses LprelLoss(p)(c*pred, c*y)
\* of the scaled batches.
C8_ScaleInvariance ==
  (InValidate /\ \A i \in DOMAIN Seen : ~ZeroNorm(Seen[i].y)) =>
       \A c \in Scales :
         LET scaled(p) ==
               [j \in SeenBatches |->
                  LET b == LoaderBatch(ds.test, ds.batch_size, j)
                  IN LprelLoss(p, FALSE, ScaleBatch(c, output_pred_batch(b)),
                               ScaleBatch(c, output_batch(b)))]
         IN /\ acc.test_relative_l1 = FltSum(scaled(1))
            /\ acc.test_relative_l2 = FltSum(scaled(2))

C8_Witness ==
  /\ pc = "validate_epoch"
  /\ ti = 2
  /\ ds.batch_size = 2
  /\ Len(ds.test) = 2
  /\ \A i \in DOMAIN Seen : ~ZeroNorm(Seen[i].y) /\ ~Exact(Seen[i])
  /\ Seen[1] # Seen[2]
  /\ acc.test_relative_l1 # FZero
  /\ \E t \in acc.test_relative_l2.t : t[1] > 1

\* the mean over the test loader of the single-output losses of channel c
ChannelMeans(c) ==
  LET one(i, f(_, _)) == f(ChannelSlice(<<ds.test[i].pred>>, c), ChannelSlice(<<ds.test[i].y>>, c))
      l1(x, y) == LprelLoss(1, FALSE, x, y)
      l2(x, y) == LprelLoss(2, FALSE, x, y)
      semih1(x, y) == H1relLoss(1, FALSE, 0, x, y)
      h1(x, y) == H1relLoss(1, FALSE, 1, x, y)
      n == Len(ds.test)
  IN << FltDiv(FltSum([i \in DOMAIN ds.test |-> one(i, l1)]), n),
        FltDiv(FltSum([i \in DOMAIN ds.test |-> one(i, l2)]), n),
        FltDiv(FltSum([i \in DOMAIN ds.test |-> one(i, semih1)]), n),
        FltDiv(FltSum([i \in DOMAIN ds.test |-> one(i, h1)]), n) >>

\* C9: entry c of each of the four vectors test_fun_multiout returns (L1,
\* L2, semi-H1, H1) is the mean over the test samples of the single-output
\* loss computed on channel c alone.
C9_AsStated ==
  pc = "test_fun_multiout_done" =>
    \A c \in Channels : \A m \in 1 .. 4 : ret[m][c] = ChannelMeans(c)[m]

\* C9, on the dimensions the function has a branch for: with problem_dim 1
\* or 2 every entry of the four returned vectors is that channel's mean.
C9_SupportedDimensions ==
  (pc = "test_fun_multiout_done" /\ ds.problem_dim \in {1, 2}) =>
    \A c \in Channels : \A m \in 1 .. 4 : ret[m][c] = ChannelMeans(c)[m]

C9_SupportedWitness ==
  /\ pc = "test_fun_multiout_done"
  /\ ds.problem_dim = 2
  /\ Len(ds.test) = 2
  /\ \A m \in 1 .. 4 : IsFinite(ret[m][0]) /\ IsFinite(ret[m][1]) /\ ret[m][0] # ret[m][1]
  /\ ret[3][0] # FZero

\* C10: evaluating a relative loss against a target whose norm is zero ends
\* in DivisionByZeroNorm: when a target of the test loader has zero norm
\* validate_epoch ends with that error, and the relative L1 and L2 errors it
\* returns are never inf or NaN.
C10_AsStated ==
  /\ (pc = "validate_epoch_done" /\ \E i \in DOMAIN ds.test : ZeroNorm(ds.test[i].y)) =>
       raised = "DivisionByZeroNorm"
  /\ (pc = "validate_epoch_done" /\ raised = "none") =>
       IsFinite(ret[1]) /\ IsFinite(ret[2])

\* C12: for a model whose problem_dim is neither 1 nor 2 the request for the
\* derivative-based errors is reported as UnsupportedProblemDimension:
\* validate_epoch and test_fun_multiout end with that error and return no
\* semi-H1 or H1 value.
C12_AsStated ==
  (pc \in {"validate_epoch_done", "test_fun_multiout_done"} /\ ds.problem_dim \notin {1, 2}) =>
    raised = "UnsupportedProblemDimension" /\ ret = <<>>

(***************************************************************************)
(* OBJECTS AND THEIR CALLS                                                 *)
(*                                                                         *)
(* A grid factory, derivative engine, residual evaluator or loss object is *)
(* constructed once with its configuration and then called, possibly by    *)
(* two callers whose calls interleave.  A call binds the batch it is       *)
(* given, computes its intermediate values, combines them with the         *)
(* configuration into the result, and returns.                             *)
(***************************************************************************)

ObjShape == <<BatchSize, 5, 4>>

\* the two batches the callers hold: u = X**2 + Y**2 and u = 2 * X**3 + Y
ObjInputs ==
  << Input(2, ObjShape, Family("poly", 1, 2, 2)),
     Input(2, ObjShape, Family("poly", 2, 3, 1)) >>

\* the two shapes the callers of a grid factory ask for
ObjGridShapes == <<ObjShape, <<BatchSize, 4, 5>>>>

\* the Darcy coefficient a = 1 + X
ObjCoef == PolyField(1, 0, 0, 0) \o PolyField(1, 1, 0, 0)

\* the two (pred, target) batches the callers of a loss object hold
ObjLossBatches ==
  << <<MakeSample(2, "hill", "ramp", 1)>>,
     <<MakeSample(3, "ramp", "const", 1), MakeSample(6, "const", "ramp", 1)>> >>

TensorsInit ==
  [u     |-> [b \in 1 .. 2 |-> ObjInputs[b].u],
   sym   |-> [b \in 1 .. 2 |-> ObjInputs[b].sym],
   shape |-> [b \in 1 .. 2 |-> ObjInputs[b].shape],
   gshape |-> ObjGridShapes,
   a     |-> [b \in 1 .. 2 |-> Sample(ObjCoef, ObjInputs[b].shape)],
   asym  |-> ObjCoef,
   pred  |-> [b \in 1 .. 2 |-> output_pred_batch(ObjLossBatches[b])],
   y     |-> [b \in 1 .. 2 |-> output_batch(ObjLossBatches[b])]]

\* the objects, each with the configuration bound at construction
Objects ==
  {[kind |-> "get_grid_2d", tracking |-> t] : t \in BOOLEAN}
  \cup {[kind |-> "second_order_2d_finitediff", fill |-> f] : f \in FillVals}
  \cup {[kind |-> "DarcyResidualFiniteDiff", rhs |-> r, fill |-> f] :
          r \in RhsVals, f \in FillVals}
  \cup {[kind |-> "DarcyResidualAutograd", rhs |-> r] : r \in RhsVals}
  \cup {[kind |-> "LprelLoss", p |-> p, size_mean |-> m] : p \in {1, 2}, m \in BOOLEAN}
  \cup {[kind |-> "H1relLoss_1D", beta |-> b, size_mean |-> FALSE, alpha |-> a] :
          b \in {1, 2}, a \in {0, 1}}

Callers == {1, 2}

\* the intermediate values kept in one attribute of the object
SlotOnSelf(t) == 1

\* the intermediate values of a call are local variables of that call
Slot(t) == t

IdleFrame == [pc |-> "idle", b |-> 0, result |-> <<>>]

ObjInit ==
  /\ inp = <<>> /\ grid = <<>> /\ call = NoCall /\ out = <<>>
  /\ ds = <<>> /\ pc = "idle" /\ ti = 1 /\ tri = 1
  /\ acc = <<>> /\ ret = <<>> /\ raised = "none" /\ training = TRUE
  /\ obj \in Objects
  /\ tensors = TensorsInit
  /\ frames = [t \in Callers |-> IdleFrame]
  /\ scratch = [t \in Callers |-> <<>>]
  /\ seen = <<>>
  /\ config = <<>> /\ run = <<>> /\ trial = <<>> /\ checkpoint = <<>>
  /\ cli = <<>> /\ job = <<>> /\ net = <<>> /\ disk = <<>>

\* the intermediate values of a call of o on batch b
Derive(o, ten, b) ==
  CASE o.kind = "get_grid_2d" -> ten.gshape[b]
    [] o.kind = "second_order_2d_finitediff" -> FiniteDiff_second_order_2d(ten.u[b], o.fill)
    [] o.kind = "DarcyResidualFiniteDiff" -> Tensor(FiniteDiff_first_order_2d(ten.u[b], o.fill))
    [] o.kind = "DarcyResidualAutograd" -> Autograd_first_order_2d(ten.sym[b])
    [] o.kind = "LprelLoss" ->
         [i \in DOMAIN ten.y[b] |->
            LpRel(o.p, ten.pred[b][i], ten.y[b][i], ChannelsOf(ten.y[b][i]))]
    [] o.kind = "H1relLoss_1D" ->
         [i \in DOMAIN ten.y[b] |->
            H1Rel(o.beta, o.alpha, ten.pred[b][i], ten.y[b][i], ChannelsOf(ten.y[b][i]))]

\* the result of the call, from its intermediate values d and the configuration
Combine(o, ten, b, d) ==
  CASE o.kind = "get_grid_2d" -> get_grid(d, o.tracking)
    [] o.kind = "second_order_2d_finitediff" -> d
    [] o.kind = "DarcyResidualFiniteDiff" ->
         LET fx == Tensor(FMul(ten.a[b], d[1]))
             fy == Tensor(FMul(ten.a[b], d[2]))
         IN FAdd(FAdd(FiniteDiff_first_order_2d(fx, o.fill)[1],
                      FiniteDiff_first_order_2d(fy, o.fill)[2]),
                 Sample(ConstField(o.rhs), ten.shape[b]))
    [] o.kind = "DarcyResidualAutograd" ->
         LET fx == SymMul(ten.asym, d[1])
             fy == SymMul(ten.asym, d[2])
         IN Sample(SymAdd(SymAdd(Autograd_first_order_2d(fx)[1],
                                 Autograd_first_order_2d(fy)[2]),
                          ConstField(o.rhs)),
                   ten.shape[b])
    [] o.kind = "LprelLoss" -> Reduce(d, o.size_mean)
    [] o.kind = "H1relLoss_1D" -> Reduce(d, o.size_mean)

\* a caller calls obj with one of its batches
obj_call(t) ==
  /\ frames[t].pc = "idle"
  /\ \E b \in 1 .. 2 : frames' = [frames EXCEPT ![t] = [pc |-> "bound", b |-> b, result |-> <<>>]]
  /\ UNCHANGED <<physVars, evalVars, fixedVars, tuneVars, cliVars, loopVars, obj, tensors, scratch, seen>>

obj_derive(t) ==
  /\ frames[t].pc = "bound"
  /\ scratch' = [scratch EXCEPT ![Slot(t)] = Derive(obj, tensors, frames[t].b)]
  /\ frames' = [frames EXCEPT ![t].pc = "derived"]
  /\ UNCHANGED <<physVars, evalVars, fixedVars, tuneVars, cliVars, loopVars, obj, tensors, seen>>

\* the result written over the batch the call was given
obj_combine_in_place(t) ==
  /\ frames[t].pc = "derived"
  /\ LET b == frames[t].b
         r == Combine(obj, tensors, b, scratch[Slot(t)])
     IN /\ frames' = [frames EXCEPT ![t].pc = "done", ![t].result = r]
        /\ tensors' = IF obj.kind = "DarcyResidualFiniteDiff"
                        THEN [tensors EXCEPT !.u[b] = r]
                        ELSE tensors
  /\ UNCHANGED <<physVars, evalVars, fixedVars, tuneVars, cliVars, loopVars, obj, scratch, seen>>

obj_combine(t) ==
  /\ frames[t].pc = "derived"
  /\ frames' = [frames EXCEPT
                  ![t].pc = "done",
                  ![t].result = Combine(obj, tensors, frames[t].b, scratch[Slot(t)])]
  /\ UNCHANGED <<physVars, evalVars, fixedVars, tuneVars, cliVars, loopVars, obj, tensors, scratch, seen>>

\* the call returns its result to the caller
obj_return(t) ==
  /\ frames[t].pc = "done"
  /\ seen' = IF frames[t].b \in DOMAIN seen THEN seen
             ELSE [b \in DOMAIN seen \cup {frames[t].b} |->
                     IF b \in DOMAIN seen THEN seen[b] ELSE frames[t].result]
  /\ frames' = [frames EXCEPT ![t] = IdleFrame]
  /\ UNCHANGED <<physVars, evalVars, fixedVars, tuneVars, cliVars, loopVars, obj, tensors, scratch>>

ObjNext ==
  \E t \in Callers :
    \/ obj_call(t)
    \/ obj_derive(t)
    \/ obj_combine(t)
    \/ obj_return(t)

SpecObjects == ObjInit /\ [][ObjNext]_vars

\* the result of a call of o on batch b made alone
Alone(o, b) ==
  CASE o.kind = "get_grid_2d" -> get_grid(ObjGridShapes[b], o.tracking)
    [] o.kind = "second_order_2d_finitediff" ->
         FiniteDiff_second_order_2d(ObjInputs[b].u, o.fill)
    [] o.kind = "DarcyResidualFiniteDiff" ->
         DarcyResidualFiniteDiff(Sample(ConstField(o.rhs), ObjShape), ObjInputs[b].u,
                                 Sample(ObjCoef, ObjShape), o.fill)
    [] o.kind = "DarcyResidualAutograd" ->
         Sample(DarcyResidualAutograd(ConstField(o.rhs), ObjInputs[b].sym, ObjCoef), ObjShape)
    [] o.kind = "LprelLoss" ->
         LprelLoss(o.p, o.size_mean, output_pred_batch(ObjLossBatches[b]),
                   output_batch(ObjLossBatches[b]))
    [] o.kind = "H1relLoss_1D" ->
         H1relLoss_1D(o.beta, o.size_mean, o.alpha, output_pred_batch(ObjLossBatches[b]),
                      output_batch(ObjLossBatches[b]))

SampleMean(loader, f(_, _)) ==
  FltDiv(FltSum([i \in DOMAIN loader |-> f(<<loader[i].pred>>, <<loader[i].y>>)]),
         Len(loader))

\* the five per-sample means validate_epoch is to return
PerSampleMeans ==
  LET l1(x, y) == LprelLoss(1, FALSE, x, y)
      l2(x, y) == LprelLoss(2, FALSE, x, y)
      semih1(x, y) == H1relLoss(1, FALSE, 0, x, y)
      h1(x, y) == H1relLoss(1, FALSE, 1, x, y)
      train(x, y) == FltAdd(loss(ds.loss_p, x, y), loss_phys(x, y))
  IN << SampleMean(ds.test, l1), SampleMean(ds.test, l2), SampleMean(ds.test, semih1),
        SampleMean(ds.test, h1), SampleMean(ds.train, train) >>

\* C18: validate_epoch returns the relative L1, L2, semi-H1 and H1 errors
\* averaged per test sample and the training loss averaged per training
\* sample: each returned value is the sum of the losses of the samples
\* divided by the number of samples, whatever the batch size that split them.
C18_AsStated ==
  (pc = "validate_epoch_done" /\ raised = "none") =>
    \A m \in 1 .. 5 : ret[m] = PerSampleMeans[m]

\* C18, on the dimensions validate_epoch has a branch for: with problem_dim
\* 1 or 2 each of the five returned values is the per-sample mean.
C18_SupportedDimensions ==
  (pc = "validate_epoch_done" /\ raised = "none" /\ ds.problem_dim \in {1, 2}) =>
    \A m \in 1 .. 5 : ret[m] = PerSampleMeans[m]

C18_SupportedWitness ==
  /\ pc = "validate_epoch_done"
  /\ ds.problem_dim = 2 /\ ds.batch_size = 2
  /\ Len(ds.test) = 2 /\ Len(ds.train) = 3
  /\ \A m \in 1 .. 5 : IsFinite(ret[m]) /\ ret[m] # FZero

-----------------------------------------------------------------------------
(***************************************************************************)
(* train_fixed_model and train_model_without_ray (train.py).               *)
(*                                                                         *)
(* config is a Python dictionary: a function whose domain is the set of    *)
(* keys it holds; config[key] of a key it does not hold raises KeyError.   *)
(* The hyperparameters are exact rationals, epochs and scheduler_step are  *)
(* integers.                                                               *)
(***************************************************************************)

required_keys ==
  <<"learning_rate", "weight_decay", "scheduler_step", "scheduler_gamma", "epochs">>

\* the order in which the call of train_model_without_ray reads the keys
ArgumentKeys ==
  <<"epochs", "learning_rate", "weight_decay", "scheduler_step", "scheduler_gamma">>

\* the keyword defaults of train_model_without_ray
Defaults ==
  [epochs |-> 1000, learning_rate |-> Rat(1, 1000), weight_decay |-> Rat(1, 1000000),
   scheduler_step |-> 1, scheduler_gamma |-> Rat(99, 100)]

\* the values a caller may give to each key
ConfigValues ==
  [epochs |-> {1, 2}, learning_rate |-> {Rat(1, 10), Rat(1, 100)},
   weight_decay |-> {RZero, Rat(1, 100)}, scheduler_step |-> {1, 2},
   scheduler_gamma |-> {Rat(1, 2), Rat(9, 10)}]

Range(s) == {s[i] : i \in DOMAIN s}

\* every dictionary holding some of the required keys
Configs ==
  LET full == [epochs : ConfigValues.epochs,
               learning_rate : ConfigValues.learning_rate,
               weight_decay : ConfigValues.weight_decay,
               scheduler_step : ConfigValues.scheduler_step,
               scheduler_gamma : ConfigValues.scheduler_gamma]
  IN  {[key \in keys |-> c[key]] : c \in full, keys \in SUBSET Range(required_keys)}

\* [key for key in required_keys if key not in config]
missing_keys(c) == SelectSeq(required_keys, LAMBDA key : key \notin DOMAIN c)

\* the first key, in argument order, that config does not hold
FirstKeyError(c) ==
  LET absent == SelectSeq(ArgumentKeys, LAMBDA key : key \notin DOMAIN c)
  IN  IF absent = <<>> THEN "none" ELSE Head(absent)

NoRun ==
  [pc |-> "idle", printed |-> <<>>, raised |-> "none", key |-> "none",
   built |-> FALSE, max_epochs |-> 0, optimizer |-> <<>>, scheduler |-> <<>>, epoch |-> 0]

FixedInit ==
  /\ inp = <<>> /\ grid = <<>> /\ call = NoCall /\ out = <<>>
  /\ ds = <<>> /\ pc = "idle" /\ ti = 1 /\ tri = 1
  /\ acc = <<>> /\ ret = <<>> /\ raised = "none" /\ training = TRUE
  /\ obj = <<>> /\ tensors = <<>> /\ frames = <<>> /\ scratch = <<>> /\ seen = <<>>
  /\ config \in Configs
  /\ run = NoRun
  /\ trial = <<>> /\ checkpoint = <<>>
  /\ cli = <<>> /\ job = <<>> /\ net = <<>> /\ disk = <<>>

FixedFrame == UNCHANGED <<physVars, evalVars, objVars, tuneVars, cliVars, loopVars, config>>

\* the check of the required keys and its message
train_fixed_model_enter ==
  /\ run.pc = "idle"
  /\ run' = [run EXCEPT !.pc = "build", !.printed = missing_keys(config)]
  /\ FixedFrame

\* dataset_builder(config) and model_builder(config)
train_fixed_model_build ==
  /\ run.pc = "build"
  /\ run' = [run EXCEPT !.pc = "call", !.built = TRUE]
  /\ FixedFrame

\* the evaluation of the arguments of train_model_without_ray, which reads
\* the five keys of config, and the head of that function up to its loop
train_fixed_model_call ==
  /\ run.pc = "call"
  /\ LET key == FirstKeyError(config) IN
       IF key # "none"
       THEN run' = [run EXCEPT !.pc = "done", !.raised = "KeyError", !.key = key]
       ELSE run' = [run EXCEPT
                      !.pc = "loop",
                      !.max_epochs = config["epochs"],
                      !.optimizer = [lr |-> config["learning_rate"],
                                     weight_decay |-> config["weight_decay"]],
                      !.scheduler = [step_size |-> config["scheduler_step"],
                                     gamma |-> config["scheduler_gamma"],
                                     last_epoch |-> 0],
                      !.epoch = 0]
  /\ FixedFrame

\* StepLR.step(): the learning rate is multiplied by gamma every step_size epochs
StepLR_step(optimizer, scheduler) ==
  LET last == scheduler.last_epoch + 1
  IN  [optimizer |-> IF last % scheduler.step_size = 0
                     THEN [optimizer EXCEPT !.lr = RMul(optimizer.lr, scheduler.gamma)]
                     ELSE optimizer,
       scheduler |-> [scheduler EXCEPT !.last_epoch = last]]

\* one turn of the loop over range(start_epoch, max_epochs)
train_model_without_ray_epoch ==
  /\ run.pc = "loop"
  /\ run.epoch < run.max_epochs
  /\ LET stepped == StepLR_step(run.optimizer, run.scheduler) IN
       run' = [run EXCEPT !.optimizer = stepped.optimizer,
                          !.scheduler = stepped.scheduler,
                          !.epoch = run.epoch + 1]
  /\ FixedFrame

train_model_without_ray_return ==
  /\ run.pc = "loop"
  /\ run.epoch >= run.max_epochs
  /\ run' = [run EXCEPT !.pc = "done"]
  /\ FixedFrame

FixedNext ==
  \/ train_fixed_model_enter
  \/ train_fixed_model_build
  \/ train_fixed_model_call
  \/ train_model_without_ray_epoch
  \/ train_model_without_ray_return

SpecFixed == FixedInit /\ [][FixedNext]_vars

\* the value train_fixed_model would train with under the fallback to the defaults
Effective(c, key) == IF key \in DOMAIN c THEN c[key] ELSE Defaults[key]

\* the hyperparameters a completed run started from
Trained(key) ==
  CASE key = "epochs" -> run.max_epochs
    [] key = "weight_decay" -> run.optimizer.weight_decay
    [] key = "scheduler_step" -> run.scheduler.step_size
    [] key = "scheduler_gamma" -> run.scheduler.gamma
    [] key = "learning_rate" -> run.optimizer.lr

\* C19: with a required key missing from config, train_fixed_model reports
\* the missing keys and completes the training with the default of each
\* missing hyperparameter, without raising.
C19_AsStated ==
  (run.pc = "done" /\ missing_keys(config) # <<>>) =>
     /\ run.printed = missing_keys(config)
     /\ run.raised = "none"
     /\ run.epoch = Effective(config, "epochs")
     /\ \A key \in Range(required_keys) \ {"learning_rate"} :
          Trained(key) = Effective(config, key)

\* what the code does instead: the message is printed, then the first read
\* of a missing key ends the call with KeyError before any epoch is trained
C19_KeyError ==
  (run.pc = "done" /\ missing_keys(config) # <<>>) =>
     /\ run.printed = missing_keys(config)
     /\ run.raised = "KeyError" /\ run.key = FirstKeyError(config)
     /\ run.epoch = 0 /\ run.optimizer = <<>>

C19_KeyErrorWitness ==
  /\ run.pc = "done" /\ run.raised = "KeyError" /\ run.key = "weight_decay"
  /\ Len(run.printed) = 2

\* with every key present the training runs config["epochs"] epochs
C19_CompleteConfig ==
  (run.pc = "done" /\ missing_keys(config) = <<>>) =>
     /\ run.printed = <<>> /\ run.raised = "none"
     /\ run.epoch = config["epochs"]
     /\ run.optimizer.lr =
          RMul(config["learning_rate"],
               RPow(config["scheduler_gamma"], run.epoch \div config["scheduler_step"]))

-----------------------------------------------------------------------------
(***************************************************************************)
(* train_hyperparameter (cli/main_raytune.py): the function Ray Tune runs  *)
(* for one trial.  Ray Tune may stop a running trial and start it again;   *)
(* the restarted function builds a new model and optimizer and reads the   *)
(* checkpoint of the last report.                                          *)
(*                                                                         *)
(* A Python value is a record with its type: a dict holds a function from  *)
(* its keys, a tuple holds a sequence.  The weights of the model are       *)
(* abstracted to the seed of their initialisation and the number of        *)
(* epochs trained on them.                                                 *)
(***************************************************************************)

MaxEpochs == 3
MaxRestarts == 2

PyTuple(items) == [type |-> "tuple", items |-> items]
PyDict(items) == [type |-> "dict", items |-> items]

\* o[key] for a string key: the value, or the exception Python raises
Subscript(o, key) ==
  IF o.type # "dict"
  THEN [raised |-> "TypeError", value |-> <<>>]
  ELSE IF key \notin DOMAIN o.items
       THEN [raised |-> "KeyError", value |-> <<>>]
       ELSE [raised |-> "none", value |-> o.items[key]]

\* torch.save writes the pickled object, torch.load returns an equal object
torch_save(o) == [format |-> "pickle", payload |-> o]
torch_load(file) == file.payload

\* model.state_dict() and optimizer.state_dict()
state_dict(module) == PyDict(module)

NewModel(seed) == [seed |-> seed, trained |-> 0]
NewOptimizer == [step |-> 0]

TrialConfigs ==
  [epochs : 1 .. MaxEpochs, checkpoint_frequency : 1 .. MaxEpochs, seed : {0, 1}]

TuneInit ==
  /\ inp = <<>> /\ grid = <<>> /\ call = NoCall /\ out = <<>>
  /\ ds = <<>> /\ pc = "idle" /\ ti = 1 /\ tri = 1
  /\ acc = <<>> /\ ret = <<>> /\ raised = "none" /\ training = TRUE
  /\ obj = <<>> /\ tensors = <<>> /\ frames = <<>> /\ scratch = <<>> /\ seen = <<>>
  /\ config = <<>> /\ run = <<>>
  /\ \E c \in TrialConfigs :
       trial = [pc |-> "stopped", epochs |-> c.epochs,
                checkpoint_frequency |-> c.checkpoint_frequency, seed |-> c.seed,
                model |-> <<>>, optimizer |-> <<>>, start_epoch |-> 0, ep |-> 0,
                resumed |-> FALSE, raised |-> "none", restarts |-> 0]
  /\ checkpoint = <<>>
  /\ cli = <<>> /\ job = <<>> /\ net = <<>> /\ disk = <<>>

TuneFrame == UNCHANGED <<physVars, evalVars, objVars, fixedVars, cliVars, loopVars>>

\* Ray Tune starts the trial: the function builds the model, the optimizer
\* and the scheduler
train_hyperparameter_enter ==
  /\ trial.pc = "stopped"
  /\ trial' = [trial EXCEPT !.pc = "load",
                            !.model = NewModel(trial.seed),
                            !.optimizer = NewOptimizer,
                            !.start_epoch = 0, !.ep = 0, !.resumed = FALSE]
  /\ UNCHANGED checkpoint
  /\ TuneFrame

\* the three reads of the loaded object, in the order of the code; the
\* first that raises ends the function
LoadCheckpoint(t, file) ==
  LET checkpoint_dict == torch_load(file)
      epoch == Subscript(checkpoint_dict, "epoch")
      model_state == Subscript(checkpoint_dict, "model_state")
      optimizer_state == Subscript(checkpoint_dict, "optimizer_state")
      started == [t EXCEPT !.resumed = TRUE]
  IN  IF epoch.raised # "none"
      THEN [started EXCEPT !.pc = "failed", !.raised = epoch.raised]
      ELSE IF model_state.raised # "none"
      THEN [started EXCEPT !.pc = "failed", !.raised = model_state.raised,
                           !.start_epoch = epoch.value + 1]
      ELSE IF optimizer_state.raised # "none"
      THEN [started EXCEPT !.pc = "failed", !.raised = optimizer_state.raised,
                           !.start_epoch = epoch.value + 1,
                           !.model = model_state.value]
      ELSE [started EXCEPT !.pc = "loop",
                           !.start_epoch = epoch.value + 1,
                           !.ep = epoch.value + 1,
                           !.model = model_state.value,
                           !.optimizer = optimizer_state.value]

\* start_epoch = 0, train.get_checkpoint() and the load of checkpoint.pt
train_hyperparameter_load ==
  /\ trial.pc = "load"
  /\ trial' = IF checkpoint = <<>>
              THEN [trial EXCEPT !.pc = "loop"]
              ELSE LoadCheckpoint(trial, checkpoint.file)
  /\ UNCHANGED checkpoint
  /\ TuneFrame

\* the object the loop writes to checkpoint.pt
SavedObject(model, optimizer) == PyTuple(<<state_dict(model), state_dict(optimizer)>>)

\* one turn of the loop: train_fun, test_fun, and the report with or
\* without a checkpoint.  epoch is the loop index of the report; it is
\* kept beside the file, not in it.
train_hyperparameter_epoch ==
  /\ trial.pc = "loop"
  /\ trial.ep < trial.epochs
  /\ LET model == [trial.model EXCEPT !.trained = @ + 1]
         optimizer == [trial.optimizer EXCEPT !.step = @ + 1]
     IN  /\ trial' = [trial EXCEPT !.model = model, !.optimizer = optimizer,
                                   !.ep = trial.ep + 1]
         /\ IF trial.ep % trial.checkpoint_frequency = 0 \/ trial.ep = trial.epochs - 1
            THEN checkpoint' = [file |-> torch_save(SavedObject(model, optimizer)),
                                epoch |-> trial.ep]
            ELSE UNCHANGED checkpoint
  /\ TuneFrame

train_hyperparameter_return ==
  /\ trial.pc = "loop"
  /\ trial.ep >= trial.epochs
  /\ trial' = [trial EXCEPT !.pc = "completed"]
  /\ UNCHANGED checkpoint
  /\ TuneFrame

\* Ray Tune stops the running trial; the model and the optimizer of the
\* stopped function are lost, the last reported checkpoint is kept
tune_stop_trial ==
  /\ trial.pc = "loop"
  /\ trial.restarts < MaxRestarts
  /\ trial' = [trial EXCEPT !.pc = "stopped", !.model = <<>>, !.optimizer = <<>>,
                            !.restarts = @ + 1]
  /\ UNCHANGED checkpoint
  /\ TuneFrame

TuneNext ==
  \/ train_hyperparameter_enter
  \/ train_hyperparameter_load
  \/ train_hyperparameter_epoch
  \/ train_hyperparameter_return
  \/ tune_stop_trial

SpecTune == TuneInit /\ [][TuneNext]_vars

\* the trial has just run the load path on a checkpoint
Resumed ==
  /\ trial.resumed
  /\ trial.pc = "failed" \/ (trial.pc = "loop" /\ trial.ep = trial.start_epoch)

\* the states the save path put in the file
Written(file) ==
  [model_state |-> file.payload.items[1].items,
   optimizer_state |-> file.payload.items[2].items]

\* C20: a trial that starts with a checkpoint written by train_hyperparameter
\* resumes at the epoch after the checkpointed one, with the model and the
\* optimizer states that were saved.
C20_AsStated ==
  Resumed =>
    /\ trial.raised = "none"
    /\ trial.start_epoch = checkpoint.epoch + 1
    /\ trial.model = Written(checkpoint.file).model_state
    /\ trial.optimizer = Written(checkpoint.file).optimizer_state

\* what the code does instead: the file holds a tuple, the load path
\* subscripts it with "epoch", and every restarted trial ends with TypeError
\* before any state is restored
C20_LoadRaises ==
  Resumed =>
    /\ trial.pc = "failed" /\ trial.raised = "TypeError"
    /\ trial.start_epoch = 0
    /\ trial.model = NewModel(trial.seed) /\ trial.optimizer = NewOptimizer

C20_LoadRaisesWitness ==
  /\ Resumed /\ checkpoint.epoch = 1
  /\ Written(checkpoint.file).model_state.trained = 2

-----------------------------------------------------------------------------
(***************************************************************************)
(* The command-line driver main_singlerun.py: its module docstring, its    *)
(* argument parser, and the selection of the loss function.                *)
(***************************************************************************)

\* the which_example options of the module docstring
DocExamples ==
  {"poisson", "wave_0_5", "cont_tran", "disc_tran", "allen", "shear_layer",
   "airfoil", "darcy", "burgers_zongyi", "darcy_zongyi", "navier_stokes_zongyi",
   "fhn", "fhn_long", "hh", "crosstruss"}

\* the exp_norm options of the module docstring, as they are spelled there
DocLosses == {"L1", "L2", "H1", "L1_smooth", "MSE"}

\* the choices of the four positional arguments of the parser
ExampleChoices ==
  {"poisson", "wave_0_5", "cont_tran", "disc_tran", "allen", "shear_layer",
   "airfoil", "darcy", "burgers_zongyi", "darcy_zongyi", "fhn", "fhn_long",
   "hh", "crosstruss"}
ArchitectureChoices == {"fno", "cno"}
LossChoices == {"l1", "l2", "h1", "l1_smooth"}
ModeChoices == {"best", "default"}

\* str.lower() and str.upper() on the strings a command line of the model holds
lower(s) ==
  CASE s \in {"L1", "l1"} -> "l1"
    [] s \in {"L2", "l2"} -> "l2"
    [] s \in {"H1", "h1"} -> "h1"
    [] s \in {"L1_smooth", "l1_smooth"} -> "l1_smooth"
    [] s \in {"MSE", "mse"} -> "mse"
    [] s \in {"Airfoil", "airfoil"} -> "airfoil"
    [] s \in {"FNO", "fno"} -> "fno"
    [] s \in {"CNO", "cno"} -> "cno"
    [] OTHER -> s

upper(s) ==
  CASE lower(s) = "l1" -> "L1"
    [] lower(s) = "l2" -> "L2"
    [] lower(s) = "h1" -> "H1"
    [] lower(s) = "l1_smooth" -> "L1_SMOOTH"
    [] lower(s) = "mse" -> "MSE"
    [] lower(s) = "fno" -> "FNO"
    [] lower(s) = "cno" -> "CNO"

\* the command lines: the options of the docstring in its spelling and in
\* lower case, and an example name with a capital letter
CommandLines ==
  [example : DocExamples \cup {"Airfoil"},
   architecture : ArchitectureChoices,
   loss_function : DocLosses \cup {lower(d) : d \in DocLosses},
   mode : {"default"}]

Norm_dict == [L1 |-> 0, L2 |-> 1, H1 |-> 2, L1_SMOOTH |-> 3, MSE |-> 4]

\* hyperparams_arc["problem_dim"] of the examples
ProblemDims == {1, 2}

CliInit ==
  /\ inp = <<>> /\ grid = <<>> /\ call = NoCall /\ out = <<>>
  /\ ds = <<>> /\ pc = "idle" /\ ti = 1 /\ tri = 1
  /\ acc = <<>> /\ ret = <<>> /\ raised = "none" /\ training = TRUE
  /\ obj = <<>> /\ tensors = <<>> /\ frames = <<>> /\ scratch = <<>> /\ seen = <<>>
  /\ config = <<>> /\ run = <<>> /\ trial = <<>> /\ checkpoint = <<>>
  /\ \E argv \in CommandLines, problem_dim \in ProblemDims :
       cli = [pc |-> "start", argv |-> argv, problem_dim |-> problem_dim,
              config |-> <<>>, p |-> -1, loss |-> "unbound", raised |-> "none"]
  /\ job = <<>> /\ net = <<>> /\ disk = <<>>

CliFrame == UNCHANGED <<physVars, evalVars, objVars, fixedVars, tuneVars, loopVars>>

\* argparse checks each positional argument against its choices, as typed,
\* and exits when one is not among them; the case is changed afterwards
parse_arguments ==
  /\ cli.pc = "start"
  /\ LET args == cli.argv IN
       IF /\ args.example \in ExampleChoices
          /\ args.architecture \in ArchitectureChoices
          /\ args.loss_function \in LossChoices
          /\ args.mode \in ModeChoices
       THEN cli' = [cli EXCEPT
                      !.pc = "parsed",
                      !.config = [example |-> lower(args.example),
                                  architecture |-> upper(args.architecture),
                                  loss_function |-> upper(args.loss_function),
                                  mode |-> lower(args.mode)]]
       ELSE cli' = [cli EXCEPT !.pc = "exit", !.raised = "SystemExit"]
  /\ CliFrame

\* hyperparams_train["exp"] = Norm_dict[exp_norm]; p = hyperparams_train["exp"]
select_norm ==
  /\ cli.pc = "parsed"
  /\ LET exp_norm == cli.config.loss_function IN
       IF exp_norm \in DOMAIN Norm_dict
       THEN cli' = [cli EXCEPT !.pc = "norm", !.p = Norm_dict[exp_norm]]
       ELSE cli' = [cli EXCEPT !.pc = "exit", !.raised = "KeyError"]
  /\ CliFrame

\* match p: the loss function of the training
select_loss ==
  /\ cli.pc = "norm"
  /\ cli' =
       CASE cli.p = 0 -> [cli EXCEPT !.pc = "done", !.loss = "LprelLoss(1, False)"]
         [] cli.p = 1 -> [cli EXCEPT !.pc = "done", !.loss = "LprelLoss(2, False)"]
         [] cli.p = 2 ->
              IF cli.problem_dim = 1
              THEN [cli EXCEPT !.pc = "done", !.loss = "H1relLoss_1D(beta, False, 1.0)"]
              ELSE IF cli.problem_dim = 2
              THEN [cli EXCEPT !.pc = "done", !.loss = "H1relLoss(beta, False, 1.0)"]
              ELSE [cli EXCEPT !.pc = "done"]
         [] cli.p = 3 -> [cli EXCEPT !.pc = "done", !.loss = "SmoothL1Loss()"]
         [] cli.p = 4 -> [cli EXCEPT !.pc = "done", !.loss = "MSELoss()"]
         [] OTHER -> [cli EXCEPT !.pc = "exit", !.raised = "ValueError"]
  /\ CliFrame

CliNext ==
  \/ parse_arguments
  \/ select_norm
  \/ select_loss

SpecCli == CliInit /\ [][CliNext]_vars

CliEnded == cli.pc \in {"exit", "done"}

\* the command line names options of the docstring, in lower case as the
\* parser spells its choices
Documented ==
  /\ cli.argv.example \in DocExamples
  /\ cli.argv.loss_function \in {lower(d) : d \in DocLosses}

\* C21: every which_example option and every loss option of the module
\* docstring is accepted by the parser, and every accepted loss option
\* selects a loss function without the 'not allowed' ValueError.
C21_AsStated ==
  (CliEnded /\ Documented) =>
     /\ cli.raised = "none"
     /\ cli.loss # "unbound"

\* the part that holds: an accepted command line always selects a loss
C21_AcceptedSelectsLoss ==
  (CliEnded /\ cli.config # <<>>) =>
     /\ cli.pc = "done" /\ cli.raised = "none" /\ cli.loss # "unbound"
     /\ cli.p \in 0 .. 3

C21_AcceptedWitness ==
  /\ cli.pc = "done" /\ cli.argv.loss_function = "h1" /\ cli.problem_dim = 2
  /\ cli.loss = "H1relLoss(beta, False, 1.0)"

\* the documented options the parser rejects
C21_Rejected ==
  (CliEnded /\ Documented) =>
     (cli.raised = "SystemExit" <=>
        \/ cli.argv.example = "navier_stokes_zongyi"
        \/ cli.argv.loss_function = "mse")

-----------------------------------------------------------------------------
(***************************************************************************)
(* train_model_without_ray and train_epoch (train.py) step by step.        *)
(*                                                                         *)
(* A sample is its index in the dataset; a batch is a sequence of samples. *)
(* The parameters of the model are abstracted to the number of optimizer   *)
(* steps taken on them, the gradient buffers to the set of batches whose   *)
(* backward pass has accumulated into them since the last zero_grad.       *)
(* validate_epoch is one step here: its result is a function of the        *)
(* parameters it evaluates.                                                *)
(***************************************************************************)

TrainEpochs == 51

start_epoch == 0
ep_step == 50
\* the n_idx train_model_without_ray passes to train_epoch
PlotSamples == 4

\* the train loaders: no batch, one batch of five samples, a batch of two
\* samples followed by a batch of one
TrainLoaders == {<<>>, <<<<1, 2, 3, 4, 5>>>>, <<<<1, 2>>, <<3>>>>}

Reverse(s) == [i \in 1 .. Len(s) |-> s[Len(s) + 1 - i]]

\* the orders in which a loader may yield its batches in one epoch
Orders(loader) == {loader, Reverse(loader)}

\* the number of batches of the test loader
TestLoaderSizes == {0, 2}

Jobs ==
  [caller : {"train_model_without_ray"},
   max_epochs : {0, 1, 2, TrainEpochs},
   n_idx : {PlotSamples},
   train_loader : TrainLoaders,
   test_batches : TestLoaderSizes,
   out_dim : {1, 2}]
  \cup
  [caller : {"train_epoch"},
   max_epochs : {1},
   n_idx : {-1, 0, 2, PlotSamples},
   train_loader : TrainLoaders,
   test_batches : {2},
   out_dim : {1}]

\* s[:n] for n >= 0
Take(s, n) == SubSeq(s, 1, IF n < Len(s) THEN n ELSE Len(s))

InputSamples(batch) == [i \in 1 .. Len(batch) |-> <<"input", batch[i]>>]
OutputSamples(batch) == [i \in 1 .. Len(batch) |-> <<"output", batch[i]>>]

\* what validate_epoch returns for a model with these parameters
Metrics(params) ==
  [train_loss |-> <<"train_loss", params>>,
   test_relative_l1 |-> <<"l1", params>>,
   test_relative_l2 |-> <<"l2", params>>,
   test_relative_semih1 |-> <<"semih1", params>>,
   test_relative_h1 |-> <<"h1", params>>]

TrainInit ==
  /\ inp = <<>> /\ grid = <<>> /\ call = NoCall /\ out = <<>>
  /\ ds = <<>> /\ pc = "idle" /\ ti = 1 /\ tri = 1
  /\ acc = <<>> /\ ret = <<>> /\ raised = "none" /\ training = TRUE
  /\ obj = <<>> /\ tensors = <<>> /\ frames = <<>> /\ scratch = <<>> /\ seen = <<>>
  /\ config = <<>> /\ run = <<>> /\ trial = <<>> /\ checkpoint = <<>>
  /\ cli = <<>>
  /\ \E j \in Jobs :
       job = [caller |-> j.caller, max_epochs |-> j.max_epochs, n_idx |-> j.n_idx,
              train_loader |-> j.train_loader, test_batches |-> j.test_batches,
              out_dim |-> j.out_dim,
              pc |-> IF j.caller = "train_epoch" THEN "train_epoch" ELSE "enter",
              epoch |-> 0, batches |-> <<>>, step |-> 0, ops |-> <<>>, log |-> <<>>,
              local |-> "unbound", result |-> "unset", stored |-> "unbound",
              metrics |-> <<>>, raised |-> "none"]
  /\ \E mode \in BOOLEAN :
       net = [params |-> 0, training |-> mode, grad |-> {},
              optimizer |-> [steps |-> 0, on |-> <<>>, mode |-> <<>>],
              scheduler |-> [last_epoch |-> 0]]
  /\ disk = [writer |-> "none", scalars |-> <<>>, multiout |-> <<>>, errors |-> <<>>,
             plots |-> <<>>, saved |-> <<>>]

TrainFrame == UNCHANGED <<physVars, evalVars, objVars, fixedVars, tuneVars, cliVars>>

Raise(j, exception) == [j EXCEPT !.pc = "raised", !.raised = exception]

\* the head of train_model_without_ray: the folder, the writer, the file of
\* the hyperparameters, the optimizer and the scheduler
train_model_without_ray_enter ==
  /\ job.pc = "enter"
  /\ job' = [job EXCEPT !.pc = "for", !.epoch = start_epoch]
  /\ disk' = [disk EXCEPT !.writer = "open"]
  /\ UNCHANGED net
  /\ TrainFrame

\* for epoch in range(start_epoch, max_epochs): the next turn, or the end
for_epoch ==
  /\ job.pc = "for"
  /\ job' = IF job.epoch < job.max_epochs
            THEN [job EXCEPT !.pc = "train_epoch", !.log = <<>>]
            ELSE [job EXCEPT !.pc = "close"]
  /\ UNCHANGED <<net, disk>>
  /\ TrainFrame

train_epoch_enter_keeps_mode ==
  /\ job.pc = "train_epoch"
  /\ \E batches \in Orders(job.train_loader) :
       job' = [job EXCEPT !.pc = IF batches = <<>> THEN "scheduler_step" ELSE "zero_grad",
                          !.batches = batches, !.step = 0, !.ops = <<>>,
                          !.local = "unbound", !.result = "unset",
                          !.log = Append(@, "train_epoch")]
  /\ UNCHANGED <<net, disk>>
  /\ TrainFrame

\* model.train(), train_loss = 0.0, and the iterator over the loader
train_epoch_enter ==
  /\ job.pc = "train_epoch"
  /\ \E batches \in Orders(job.train_loader) :
       job' = [job EXCEPT !.pc = IF batches = <<>> THEN "scheduler_step" ELSE "zero_grad",
                          !.batches = batches, !.step = 0, !.ops = <<>>,
                          !.local = "unbound", !.result = "unset",
                          !.log = Append(@, "train_epoch")]
  /\ net' = [net EXCEPT !.training = TRUE]
  /\ UNCHANGED disk
  /\ TrainFrame

train_epoch_zero_grad_skipped ==
  /\ job.pc = "zero_grad"
  /\ job' = [job EXCEPT !.pc = "forward", !.ops = <<"zero_grad">>]
  /\ UNCHANGED <<net, disk>>
  /\ TrainFrame

\* optimizer.zero_grad()
train_epoch_zero_grad ==
  /\ job.pc = "zero_grad"
  /\ job' = [job EXCEPT !.pc = "forward", !.ops = <<"zero_grad">>]
  /\ net' = [net EXCEPT !.grad = {}]
  /\ UNCHANGED disk
  /\ TrainFrame

\* model.forward(input_batch), which may fail, and the samples kept for the plots
train_epoch_forward ==
  /\ job.pc = "forward"
  /\ \E fails \in BOOLEAN :
       IF fails
       THEN job' = Raise(job, "RuntimeError")
       ELSE LET batch == job.batches[job.step + 1] IN
            job' = [job EXCEPT
                      !.pc = "loss",
                      !.ops = Append(@, "forward"),
                      !.local = IF job.step = 0 /\ job.n_idx > 0
                                THEN <<Take(InputSamples(batch), job.n_idx),
                                       Take(OutputSamples(batch), job.n_idx)>>
                                ELSE @]
  /\ UNCHANGED <<net, disk>>
  /\ TrainFrame

\* loss_f = loss(output_pred_batch, output_batch) + loss_phys(output_pred_batch, input_batch)
train_epoch_loss ==
  /\ job.pc = "loss"
  /\ job' = [job EXCEPT !.pc = "backward", !.ops = Append(@, "loss")]
  /\ UNCHANGED <<net, disk>>
  /\ TrainFrame

\* loss_f.backward() adds the gradient of this batch to the buffers
train_epoch_backward ==
  /\ job.pc = "backward"
  /\ job' = [job EXCEPT !.pc = "optimizer_step", !.ops = Append(@, "backward")]
  /\ net' = [net EXCEPT !.grad = @ \cup {job.batches[job.step + 1]}]
  /\ UNCHANGED disk
  /\ TrainFrame

\* optimizer.step(), the running loss, and the next batch if there is one
train_epoch_optimizer_step ==
  /\ job.pc = "optimizer_step"
  /\ job' = [job EXCEPT
               !.pc = IF job.step + 1 < Len(job.batches) THEN "zero_grad" ELSE "scheduler_step",
               !.step = @ + 1,
               !.ops = Append(@, "optimizer.step")]
  /\ net' = [net EXCEPT !.params = @ + 1,
                        !.optimizer = [steps |-> @.steps + 1, on |-> net.grad,
                                       mode |-> net.training]]
  /\ UNCHANGED disk
  /\ TrainFrame

\* scheduler.step()
train_epoch_scheduler_step ==
  /\ job.pc = "scheduler_step"
  /\ job' = [job EXCEPT !.pc = "return"]
  /\ net' = [net EXCEPT !.scheduler.last_epoch = @ + 1]
  /\ UNCHANGED disk
  /\ TrainFrame

\* return esempio_test, soluzione_test if n_idx > 0, else None; the two
\* names are unbound when the loader had no batch
train_epoch_return ==
  /\ job.pc = "return"
  /\ job' = IF job.n_idx > 0 /\ job.local = "unbound"
            THEN Raise(job, "UnboundLocalError")
            ELSE [job EXCEPT
                    !.pc = IF job.caller = "train_epoch" THEN "returned" ELSE "keep",
                    !.result = IF job.n_idx > 0 THEN job.local ELSE "None"]
  /\ UNCHANGED <<net, disk>>
  /\ TrainFrame

epoch_keep_samples_every_epoch ==
  /\ job.pc = "keep"
  /\ job' = [job EXCEPT !.pc = "validate",
                        !.stored = IF job.result # "None" THEN job.result ELSE @]
  /\ UNCHANGED <<net, disk>>
  /\ TrainFrame

\* if epoch == 0 and train_epoch_result is not None: esempio_test, soluzione_test = ...
epoch_keep_samples ==
  /\ job.pc = "keep"
  /\ job' = [job EXCEPT !.pc = "validate",
                        !.stored = IF job.epoch = 0 /\ job.result # "None"
                                   THEN job.result ELSE @]
  /\ UNCHANGED <<net, disk>>
  /\ TrainFrame

\* validate_epoch: no_grad, model.eval(), the five means; the division by
\* the count of test samples fails when the test loader has no batch
epoch_validate ==
  /\ job.pc = "validate"
  /\ job' = IF job.test_batches = 0
            THEN Raise(job, "ZeroDivisionError")
            ELSE [job EXCEPT !.pc = "add_scalars", !.metrics = Metrics(net.params),
                             !.log = Append(@, "validate_epoch")]
  /\ net' = [net EXCEPT !.training = FALSE]
  /\ UNCHANGED disk
  /\ TrainFrame

\* writer.add_scalars of the five values of this epoch
epoch_add_scalars ==
  /\ job.pc = "add_scalars"
  /\ job' = [job EXCEPT !.pc = "multiout", !.log = Append(@, "add_scalars")]
  /\ disk' = [disk EXCEPT !.scalars = Append(@, [epoch |-> job.epoch, metrics |-> job.metrics])]
  /\ UNCHANGED net
  /\ TrainFrame

\* if config["out_dim"] > 1: test_fun_multiout and its scalars
epoch_multiout ==
  /\ job.pc = "multiout"
  /\ job' = [job EXCEPT !.pc = "errors"]
  /\ IF job.out_dim > 1
     THEN /\ net' = [net EXCEPT !.training = FALSE]
          /\ disk' = [disk EXCEPT !.multiout = Append(@, job.epoch)]
     ELSE UNCHANGED <<net, disk>>
  /\ TrainFrame

epoch_errors_txt_append ==
  /\ job.pc = "errors"
  /\ job' = [job EXCEPT !.pc = "plot_data", !.log = Append(@, "errors.txt")]
  /\ disk' = [disk EXCEPT !.errors = Append(@, [metrics |-> job.metrics, epoch |-> job.epoch])]
  /\ UNCHANGED net
  /\ TrainFrame

\* with open(folder + "/errors.txt", "w"): the file is truncated, then written
epoch_errors_txt ==
  /\ job.pc = "errors"
  /\ job' = [job EXCEPT !.pc = "plot_data", !.log = Append(@, "errors.txt")]
  /\ disk' = [disk EXCEPT !.errors = <<[metrics |-> job.metrics, epoch |-> job.epoch]>>]
  /\ UNCHANGED net
  /\ TrainFrame

Plot(title, epoch, samples) == [title |-> title, epoch |-> epoch, samples |-> samples]

\* if epoch == 0: the plots of the input function and of the exact solution
epoch_plot_data ==
  /\ job.pc = "plot_data"
  /\ IF job.epoch = 0
     THEN IF job.stored = "unbound"
          THEN /\ job' = Raise(job, "UnboundLocalError")
               /\ UNCHANGED disk
          ELSE /\ job' = [job EXCEPT !.pc = "plot_solution",
                                     !.log = Append(@, "plot_data")]
               /\ disk' = [disk EXCEPT !.plots =
                             @ \o <<Plot("Input function", job.epoch, job.stored[1]),
                                    Plot("Exact solution", job.epoch, job.stored[2])>>]
     ELSE /\ job' = [job EXCEPT !.pc = "plot_solution"]
          /\ UNCHANGED disk
  /\ UNCHANGED net
  /\ TrainFrame

\* the two plots of a turn that plots the approximate solution
SolutionPlots(j) ==
  <<Plot("Approximate solution", j.epoch, j.stored[1]),
    Plot("Module of the error", j.epoch, j.stored[2])>>

epoch_plot_solution_and_save ==
  /\ job.pc = "plot_solution"
  /\ job' = [job EXCEPT !.pc = "for", !.epoch = @ + 1,
                        !.log = IF job.epoch % ep_step = 0
                                THEN Append(@, "plot_solution") ELSE @]
  /\ disk' = [disk EXCEPT
                !.plots = IF job.epoch % ep_step = 0 THEN @ \o SolutionPlots(job) ELSE @,
                !.saved = Append(@, [params |-> net.params, writer |-> disk.writer,
                                     epochs |-> job.epoch + 1])]
  /\ UNCHANGED net
  /\ TrainFrame

epoch_plot_solution_every_epoch ==
  /\ job.pc = "plot_solution"
  /\ job' = [job EXCEPT !.pc = "for", !.epoch = @ + 1,
                        !.log = Append(@, "plot_solution")]
  /\ disk' = [disk EXCEPT !.plots = @ \o SolutionPlots(job)]
  /\ UNCHANGED net
  /\ TrainFrame

\* if epoch % ep_step == 0: the model on the kept inputs under no_grad, the
\* plots of the approximate solution and of the error; then the next epoch
epoch_plot_solution ==
  /\ job.pc = "plot_solution"
  /\ job' = [job EXCEPT !.pc = "for", !.epoch = @ + 1,
                        !.log = IF job.epoch % ep_step = 0
                                THEN Append(@, "plot_solution") ELSE @]
  /\ disk' = [disk EXCEPT
                !.plots = IF job.epoch % ep_step = 0 THEN @ \o SolutionPlots(job) ELSE @]
  /\ UNCHANGED net
  /\ TrainFrame

\* writer.flush(); writer.close()
writer_close ==
  /\ job.pc = "close"
  /\ job' = [job EXCEPT !.pc = "save"]
  /\ disk' = [disk EXCEPT !.writer = "closed"]
  /\ UNCHANGED net
  /\ TrainFrame

\* torch.save(model, name_model)
save_model ==
  /\ job.pc = "save"
  /\ job' = [job EXCEPT !.pc = "done"]
  /\ disk' = [disk EXCEPT !.saved = Append(@, [params |-> net.params, writer |-> disk.writer,
                                               epochs |-> job.epoch])]
  /\ UNCHANGED net
  /\ TrainFrame

TrainNext ==
  \/ train_model_without_ray_enter
  \/ for_epoch
  \/ train_epoch_enter
  \/ train_epoch_zero_grad
  \/ train_epoch_forward
  \/ train_epoch_loss
  \/ train_epoch_backward
  \/ train_epoch_optimizer_step
  \/ train_epoch_scheduler_step
  \/ train_epoch_return
  \/ epoch_keep_samples
  \/ epoch_validate
  \/ epoch_add_scalars
  \/ epoch_multiout
  \/ epoch_errors_txt
  \/ epoch_plot_data
  \/ epoch_plot_solution
  \/ writer_close
  \/ save_model

SpecTrain == TrainInit /\ [][TrainNext]_vars

TrainTypeOK == job.pc \in {"enter", "for", "train_epoch", "zero_grad", "forward", "loss",
                            "backward", "optimizer_step", "scheduler_step", "return",
                            "returned", "keep", "validate", "add_scalars", "multiout",
                            "errors", "plot_data", "plot_solution", "close", "save",
                            "done", "raised"}

-----------------------------------------------------------------------------
(* Claims on the order of the steps of a training run *)

InTrainEpoch ==
  job.pc \in {"train_epoch", "zero_grad", "forward", "loss", "backward",
              "optimizer_step", "scheduler_step", "return"}

AfterTrainEpoch ==
  job.pc \in {"keep", "validate", "add_scalars", "multiout", "errors", "plot_data",
              "plot_solution"}

BetweenEpochs == job.pc \in {"for", "close", "save", "done"}

IsPrefix(s, t) == Len(s) <= Len(t) /\ \A i \in 1 .. Len(s) : s[i] = t[i]

\* the steps of one turn of the loop that always run, in the order of the claim
TurnOrder == <<"train_epoch", "validate_epoch", "add_scalars", "errors.txt">>

\* C22: the epochs run in increasing order from 0; in each epoch train_epoch
\* has completed when validate_epoch starts, and the validation results of an
\* epoch are logged before the training of the next one begins; the model is
\* saved exactly once, after the last epoch and the closing of the writer,
\* and never when an epoch raised.
C22_EpochOrder ==
  /\ \A i \in 1 .. Len(disk.scalars) : disk.scalars[i].epoch = i - 1
  /\ IsPrefix(SubSeq(job.log, 1, IF Len(job.log) < 4 THEN Len(job.log) ELSE 4), TurnOrder)
  /\ (job.caller = "train_model_without_ray" /\ InTrainEpoch) =>
        /\ Len(disk.scalars) = job.epoch
        /\ job.log \in {<<>>, <<"train_epoch">>}
  /\ (job.pc \in {"validate", "add_scalars"}) =>
        /\ net.scheduler.last_epoch = job.epoch + 1
        /\ net.optimizer.steps = (job.epoch + 1) * Len(job.train_loader)
        /\ Len(disk.scalars) = job.epoch
  /\ Len(disk.saved) <= 1
  /\ disk.saved # <<>> <=> job.pc = "done"
  /\ job.pc = "done" =>
        /\ job.raised = "none"
        /\ Len(disk.scalars) = job.max_epochs
        /\ disk.saved[1] = [params |-> job.max_epochs * Len(job.train_loader),
                            writer |-> "closed", epochs |-> job.max_epochs]
  /\ job.raised # "none" => job.pc = "raised" /\ disk.saved = <<>>

C22_Witness ==
  /\ job.pc = "done" /\ job.max_epochs = 2 /\ Len(job.train_loader) = 2
  /\ Len(disk.saved) = 1 /\ disk.saved[1].params = 4
  /\ Len(disk.scalars) = 2

\* a run that raised in its second epoch after logging the first
C22_RaisedWitness ==
  /\ job.pc = "raised" /\ job.epoch = 1 /\ Len(disk.scalars) = 1 /\ disk.saved = <<>>

BatchOrder == <<"zero_grad", "forward", "loss", "backward", "optimizer.step">>

\* C23: in train_epoch every batch goes through zero_grad, forward, loss,
\* backward, optimizer.step in this order; the optimizer steps once per batch,
\* on the gradient of that batch alone; the scheduler steps once per call,
\* after the last batch, so it has stepped e times after e epochs whatever
\* the number of batches.
C23_BatchOrder ==
  /\ IsPrefix(job.ops, BatchOrder)
  /\ (InTrainEpoch /\ job.pc # "train_epoch") =>
        /\ net.optimizer.steps = job.epoch * Len(job.train_loader) + job.step
        /\ job.step > 0 => net.optimizer.on = {job.batches[job.step]}
        /\ job.pc \in {"scheduler_step", "return"} => job.step = Len(job.batches)
  /\ (InTrainEpoch /\ job.pc # "return") => net.scheduler.last_epoch = job.epoch
  /\ (job.pc \in {"return", "returned"} \/ AfterTrainEpoch) =>
        net.scheduler.last_epoch = job.epoch + 1
  /\ BetweenEpochs =>
        /\ net.scheduler.last_epoch = job.epoch
        /\ net.optimizer.steps = job.epoch * Len(job.train_loader)

C23_Witness ==
  /\ job.pc = "for" /\ job.epoch = 2 /\ Len(job.train_loader) = 2
  /\ net.scheduler.last_epoch = 2 /\ net.optimizer.steps = 4
  /\ net.optimizer.on = {<<1, 2>>}

Min(a, b) == IF a < b THEN a ELSE b

\* the first n samples of a batch, tagged as inputs or as outputs
FirstSamples(tag, batch, n) == [i \in 1 .. Min(n, Len(batch)) |-> <<tag, batch[i]>>]

\* C24: on a loader with at least one batch, train_epoch with n_idx > 0
\* returns the first n_idx input samples and the first n_idx output samples
\* of the first batch it was given (all of them if the batch is smaller), and
\* None with n_idx <= 0; train_model_without_ray keeps the pair returned at
\* epoch 0 and every plot of every epoch shows that pair.
C24_PlotSamples ==
  /\ (job.pc \in {"returned", "keep"} /\ job.train_loader # <<>>) =>
        job.result = IF job.n_idx > 0
                     THEN <<FirstSamples("input", job.batches[1], job.n_idx),
                            FirstSamples("output", job.batches[1], job.n_idx)>>
                     ELSE "None"
  /\ (AfterTrainEpoch /\ job.pc # "keep" /\ job.epoch = 0) => job.stored = job.result
  /\ disk.plots # <<>> =>
        /\ job.stored = <<disk.plots[1].samples, disk.plots[2].samples>>
        /\ disk.plots[1].epoch = 0 /\ disk.plots[2].epoch = 0
  /\ \A i \in 1 .. Len(disk.plots) :
        disk.plots[i].samples =
          IF disk.plots[i].title \in {"Input function", "Approximate solution"}
          THEN disk.plots[1].samples ELSE disk.plots[2].samples

\* the plots of epoch 50 show the samples of epoch 0 although the loader
\* gave another first batch in epoch 50
C24_Witness ==
  /\ job.pc = "for" /\ job.epoch = ep_step + 1
  /\ Len(disk.plots) = 6 /\ disk.plots[5].epoch = ep_step
  /\ job.result # job.stored
  /\ disk.plots[5].samples = disk.plots[1].samples

C24_TruncatedWitness ==
  /\ job.pc = "returned" /\ job.n_idx = 4 /\ Len(job.batches[1]) = 5
  /\ Len(job.result[1]) = 4

C24_NoneWitness == job.pc = "returned" /\ job.n_idx = 0 /\ job.result = "None"

\* C25: validate_epoch and test_fun_multiout change neither the parameters of
\* the model, nor the gradients, nor the state of the optimizer or of the
\* scheduler, and leave the model in eval mode; train_epoch sets the train
\* mode again, so every optimizer step is taken in train mode.
C25_ValidationFrame ==
  /\ [](net.optimizer.steps > 0 => net.optimizer.mode = TRUE)
  /\ [](job.pc \in {"zero_grad", "forward", "loss", "backward", "optimizer_step"}
          => net.training)
  /\ [][job.pc \in {"validate", "multiout"} =>
          /\ net'.params = net.params
          /\ net'.grad = net.grad
          /\ net'.optimizer = net.optimizer
          /\ net'.scheduler = net.scheduler
          /\ (job.pc = "validate" \/ job.out_dim > 1) => ~net'.training]_vars

\* the second epoch has trained in train mode after the validation of the
\* first had put the model in eval mode
C25_Witness ==
  /\ job.pc = "errors" /\ job.epoch = 1 /\ job.out_dim = 2
  /\ ~net.training
  /\ net.optimizer.steps = 2 * Len(job.train_loader) /\ net.optimizer.steps > 0
  /\ net.optimizer.mode = TRUE
  /\ job.metrics = Metrics(net.params)

\* the positions in disk.plots of the plots with this title at this epoch
PlotsOf(title, epoch) ==
  {i \in 1 .. Len(disk.plots) : disk.plots[i].title = title /\ disk.plots[i].epoch = epoch}

\* the epochs whose turn of the loop has gone through both plot steps
PlottedEpochs == 0 .. job.epoch - 1

\* C26: the input function and the exact solution are plotted once, at epoch
\* 0; the approximate solution and the error modulus are plotted at epoch e
\* exactly when e is a multiple of 50; a plot of epoch e is made after the
\* validation of epoch e.
C26_PlotSchedule ==
  /\ \A e \in PlottedEpochs :
        /\ Cardinality(PlotsOf("Input function", e)) = IF e = 0 THEN 1 ELSE 0
        /\ Cardinality(PlotsOf("Exact solution", e)) = IF e = 0 THEN 1 ELSE 0
        /\ Cardinality(PlotsOf("Approximate solution", e)) = IF e % 50 = 0 THEN 1 ELSE 0
        /\ Cardinality(PlotsOf("Module of the error", e)) = IF e % 50 = 0 THEN 1 ELSE 0
  /\ \A i \in 1 .. Len(disk.plots) :
        /\ disk.plots[i].epoch <= job.epoch
        /\ disk.plots[i].epoch < Len(disk.scalars)
        /\ disk.scalars[disk.plots[i].epoch + 1].epoch = disk.plots[i].epoch
  /\ \A i \in 1 .. Len(job.log) :
        job.log[i] \in {"plot_data", "plot_solution"} =>
           \E k \in 1 .. i - 1 : job.log[k] = "validate_epoch"

C26_Witness ==
  /\ job.pc = "done" /\ job.epoch > 50
  /\ Len(disk.plots) = 6
  /\ PlotsOf("Approximate solution", 50) = {5}
  /\ PlotsOf("Module of the error", 50) = {6}
  /\ PlotsOf("Approximate solution", 49) = {}

\* the epoch of the last write of errors.txt, -1 before the first
LastWritten == IF job.pc \in {"plot_data", "plot_solution"} THEN job.epoch ELSE job.epoch - 1

\* C27: after every completed epoch e, errors.txt holds the metrics of epoch
\* e alone, with 'Current Epoch: e', and these are the values validate_epoch
\* returned in epoch e; after a run of max_epochs >= 1 it reports epoch
\* max_epochs - 1.
C27_ErrorsFile ==
  /\ Len(disk.errors) <= 1
  /\ (job.pc # "raised" /\ LastWritten >= 0) =>
        disk.errors = <<[metrics |-> Metrics((LastWritten + 1) * Len(job.train_loader)),
                         epoch |-> LastWritten]>>
  /\ (job.pc # "raised" /\ LastWritten < 0) => disk.errors = <<>>
  /\ \A i \in 1 .. Len(disk.errors) :
        /\ disk.errors[i].epoch < Len(disk.scalars)
        /\ disk.errors[i].metrics = disk.scalars[disk.errors[i].epoch + 1].metrics
  /\ (job.pc = "done" /\ job.max_epochs >= 1) =>
        disk.errors[1].epoch = job.max_epochs - 1

C27_Witness ==
  /\ job.pc = "done" /\ job.max_epochs = 2 /\ Len(job.train_loader) = 2
  /\ disk.errors = <<[metrics |-> Metrics(4), epoch |-> 1]>>
  /\ disk.scalars[1].metrics = Metrics(2)

====
